---- MODULE Spec2Model ----
(***************************************************************************)
(* State-machine model of the shipment Q&A bot's conversational retrieval  *)
(* orchestrator: scope resolution (security/scope.py), the search tool's   *)
(* security filter (tools/azure_ai_search.py) and the per-turn graph of    *)
(* nodes (graph/nodes/*.py).                                               *)
(*                                                                         *)
(* Text is modelled as sequences of one-character strings where the code   *)
(* splits, trims or scans it (consignee codes, filters as token lists),    *)
(* and as whole strings with attribute tables where the code only tests    *)
(* regular expressions on a question.                                      *)
(***************************************************************************)
EXTENDS Integers, Sequences, FiniteSets, TLC

VARIABLES
    pc,                  \* node of the graph about to run ("idle" between turns)
    state,               \* the GraphState dict threaded through the nodes
    turn,                \* number of turns started on the conversation
    ALLOW_UNSAFE_SCOPE,  \* scope._ALLOW_UNSAFE_SCOPE (read from the environment at import)
    registryEnv,         \* what CONSIGNEE_SCOPE_REGISTRY_JSON / _PATH hold
    REGISTRY_CACHE,      \* scope._REGISTRY_CACHE
    testMode,            \* utils.runtime.is_test_mode()
    searchLog,           \* search-engine calls of the retrieve_node run just finished
    trace,               \* nodes executed during the current turn, in order
    entryCodes,          \* state.consignee_codes as handed to the graph at entry
    call,                \* direct call of a library function (tests, scripts)
    ret,                 \* its result
    singletons,          \* the module globals _COMPILED_GRAPH, _EMBED, _SEARCH, _CHAT_TOOL
    loop,                \* the server's event loop and the requests it is handling
    checkpoints          \* the checkpoint store, by conversation id

vars == <<pc, state, turn, ALLOW_UNSAFE_SCOPE, registryEnv, REGISTRY_CACHE,
          testMode, searchLog, trace, entryCodes, call, ret, singletons, loop,
          checkpoints>>

(***************************************************************************)
(* Bounds                                                                  *)
(***************************************************************************)
MaxStrLen == 3
MaxListLen == 3
MaxTurns == 3

\* A conversation is followed into a further turn while its usage totals are
\* at most MaxUsage
MaxUsage == 2

None == "<None>"

NoInt == -1

(***************************************************************************)
(* Python string and list primitives used by the code                      *)
(***************************************************************************)
Chars == {"7", "9", " ", ","}

StrUpTo(n) == UNION {[1..k -> Chars] : k \in 0..n}

Last(s) == s[Len(s)]

Front(s) == SubSeq(s, 1, Len(s) - 1)

RECURSIVE lstrip(_)
lstrip(s) == IF s = <<>> THEN s
             ELSE IF Head(s) = " " THEN lstrip(Tail(s)) ELSE s

RECURSIVE rstrip(_)
rstrip(s) == IF s = <<>> THEN s
             ELSE IF Last(s) = " " THEN rstrip(Front(s)) ELSE s

strip(s) == rstrip(lstrip(s))

\* str.split(","): the pieces between commas, empty pieces kept
RECURSIVE split(_)
split(s) ==
    IF \A i \in 1..Len(s) : s[i] # ","
    THEN <<s>>
    ELSE LET i == CHOOSE k \in 1..Len(s) :
                      s[k] = "," /\ \A j \in 1..(k - 1) : s[j] # ","
         IN  <<SubSeq(s, 1, i - 1)>> \o split(SubSeq(s, i + 1, Len(s)))

\* [f(x) for x in xs if f(x)] with f = strip
RECURSIVE StripNonBlank(_)
StripNonBlank(xs) ==
    IF xs = <<>> THEN <<>>
    ELSE LET h == strip(Head(xs))
         IN  (IF h = <<>> THEN <<>> ELSE <<h>>) \o StripNonBlank(Tail(xs))

Elems(xs) == {xs[i] : i \in 1..Len(xs)}

\* [c for c in codes if c in keep]
RECURSIVE Filter(_, _)
Filter(xs, keep) ==
    IF xs = <<>> THEN <<>>
    ELSE (IF Head(xs) \in keep THEN <<Head(xs)>> ELSE <<>>) \o Filter(Tail(xs), keep)

\* seen = set(); [c for c in codes if not (c in seen or seen.add(c))]
RECURSIVE DedupFrom(_, _)
DedupFrom(xs, seen) ==
    IF xs = <<>> THEN <<>>
    ELSE IF Head(xs) \in seen THEN DedupFrom(Tail(xs), seen)
         ELSE <<Head(xs)>> \o DedupFrom(Tail(xs), seen \cup {Head(xs)})

_dedupe_preserve_order(xs) == DedupFrom(xs, {})

(***************************************************************************)
(* security/scope.py                                                       *)
(***************************************************************************)
Star == <<"*">>

\* A registry value as found in the JSON document: a comma string, a list of
\* strings, or something else (number, object).
RegStr(s) == [t |-> "str", v |-> s]
RegList(l) == [t |-> "list", v |-> l]
RegOther == [t |-> "other", v |-> <<>>]

\* Lines 32-40: normalisation of one registry entry
NormRegistryCodes(codes) ==
    IF codes.t = "str" THEN StripNonBlank(split(codes.v))
    ELSE IF codes.t = "list" THEN StripNonBlank(codes.v)
    ELSE <<>>

\* The registry documents the environment may hold.  kind: "absent" (neither
\* variable set), "unreadable" (json.loads / open raises), "not_dict" (valid
\* JSON that is not an object), "dict".
RegistryDicts ==
    { [u \in {} |-> RegOther],
      [u \in {"user1"} |-> RegList(<< <<"7">>, <<"9">> >>)],
      [u \in {"user1"} |-> RegStr(<<"7", ",", " ", "9">>)],
      [u \in {"user1"} |-> RegList(<< Star >>)],
      [u \in {"user1"} |-> RegOther],
      [u \in {"user1", "*"} |-> IF u = "*" THEN RegList(<< <<"9">> >>)
                                 ELSE RegList(<< <<" ">> >>)] }

RegistryEnvs ==
    { [kind |-> k, data |-> [u \in {} |-> RegOther]] :
          k \in {"absent", "unreadable", "not_dict"} }
    \cup { [kind |-> "dict", data |-> d] : d \in RegistryDicts }

\* _load_identity_registry, lines 19-47, from the environment
LoadRegistryFromEnv(env) ==
    IF env.kind = "dict"
    THEN [u \in DOMAIN env.data |-> NormRegistryCodes(env.data[u])]
    ELSE [u \in {} |-> <<>>]

NotLoaded == [loaded |-> FALSE]

\* _load_identity_registry, lines 15-17 and 46: the cached value wins
_load_identity_registry(cache, env) ==
    IF cache.loaded THEN cache.reg ELSE LoadRegistryFromEnv(env)

\* registry.get(key) or <default>
RegGetOr(registry, key, default) ==
    IF key \in DOMAIN registry /\ registry[key] # <<>> THEN registry[key] ELSE default

\* Payload codes as the caller hands them over
PNone == [t |-> "none", v |-> <<>>]
PStr(s) == [t |-> "str", v |-> s]
PList(l) == [t |-> "list", v |-> l]
POther == [t |-> "other", v |-> <<>>]

\* `not payload_codes`
PayloadFalsy(p) == p.t = "none" \/ (p.t \in {"str", "list"} /\ p.v = <<>>)

\* `not user_identity`
IdentityMissing(id) == id = None \/ id = ""

\* A slip: duplicates are kept
NormalizePayloadKeepsDuplicates(p) ==
    IF p.t = "str" THEN StripNonBlank(split(p.v)) ELSE StripNonBlank(p.v)

\* Lines 79-90
NormalizePayload(p) ==
    _dedupe_preserve_order(IF p.t = "str" THEN StripNonBlank(split(p.v))
                           ELSE StripNonBlank(p.v))

\* A slip: without a registry the requested codes are let through
resolve_allowed_scope_open(user_identity, payload_codes, registry, unsafe) ==
    IF PayloadFalsy(payload_codes) THEN <<>>
    ELSE IF payload_codes.t = "other" THEN <<>>
    ELSE LET codes == NormalizePayload(payload_codes) IN
         IF IdentityMissing(user_identity) THEN codes
         ELSE IF DOMAIN registry = {} THEN codes
         ELSE LET allowed == RegGetOr(registry, user_identity,
                                      RegGetOr(registry, "*", <<>>))
              IN  IF Star \in Elems(allowed) THEN codes
                  ELSE Filter(codes, Elems(allowed))

\* resolve_allowed_scope, lines 72-136
resolve_allowed_scope(user_identity, payload_codes, registry, unsafe) ==
    IF PayloadFalsy(payload_codes) THEN <<>>
    ELSE IF payload_codes.t = "other" THEN <<>>
    ELSE LET codes == NormalizePayload(payload_codes) IN
         IF IdentityMissing(user_identity) THEN codes
         ELSE IF DOMAIN registry = {} THEN (IF unsafe THEN codes ELSE <<>>)
         ELSE LET allowed == RegGetOr(registry, user_identity,
                                      RegGetOr(registry, "*", <<>>))
              IN  IF Star \in Elems(allowed) THEN codes
                  ELSE Filter(codes, Elems(allowed))


\* Line 102 is reached only for a truthy list/str payload and a present identity
ReachesRegistry(user_identity, payload_codes) ==
    /\ ~PayloadFalsy(payload_codes)
    /\ payload_codes.t # "other"
    /\ ~IdentityMissing(user_identity)

(***************************************************************************)
(* OData filters as token lists.  "'" is the quote character; everything   *)
(* between a pair of quotes is a string literal.                           *)
(***************************************************************************)
Quote == "'"

Punct == {"(", ")", "/", ":", ".", ",", Quote, " "}

NumberTokens == {"7", "9", "5302997239"}

\* re.findall(r"\b[a-zA-Z_][a-zA-Z0-9_]*\b", ...) finds exactly these tokens
IsIdentifier(tok) == tok \notin Punct /\ tok \notin NumberTokens

\* retrieve._FILTER_FIELDS, lines 22-61
_FILTER_FIELDS ==
    {"container_number", "po_numbers", "booking_numbers", "obl_nos",
     "shipment_status", "hot_container_flag", "container_type",
     "destination_service", "load_port", "final_load_port", "discharge_port",
     "last_cy_location", "place_of_receipt", "place_of_delivery",
     "final_destination", "first_vessel_name", "final_carrier_name",
     "final_vessel_name", "true_carrier_scac_name", "etd_lp_date",
     "etd_flp_date", "eta_dp_date", "eta_fd_date", "revised_eta",
     "atd_lp_date", "ata_flp_date", "atd_flp_date", "ata_dp_date",
     "supplier_vendor_name", "manufacturer_name", "ship_to_party_name",
     "job_type", "mcs_hbl", "transport_mode", "dp_delayed_dur",
     "fd_delayed_dur", "delayed_dp", "delayed_fd"}

\* _is_filter_safe.keywords, lines 73-90
keywords ==
    {"and", "or", "eq", "ne", "gt", "ge", "lt", "le", "any", "all", "in",
     "true", "false", "null", "contains", "search"}

\* len(t) == 1 for the identifiers of the model's vocabulary
OneLetter == {"t", "p", "b", "o", "x"}

\* re.sub(r"'[^']*'", "''", s): quotes are paired left to right and the text
\* between a pair is removed; a last unpaired quote and what follows stay.
FirstQuote(f) ==
    IF \A i \in DOMAIN f : f[i] # Quote THEN 0
    ELSE CHOOSE k \in DOMAIN f : f[k] = Quote /\ \A m \in 1..(k - 1) : f[m] # Quote

RECURSIVE scrub(_)
scrub(f) ==
    LET open == FirstQuote(f) IN
    IF open = 0 THEN f
    ELSE LET rest == SubSeq(f, open + 1, Len(f))
             close == FirstQuote(rest)
         IN  IF close = 0 THEN f
             ELSE SubSeq(f, 1, open - 1) \o <<Quote, Quote>>
                  \o scrub(SubSeq(rest, close + 1, Len(rest)))

\* A slip: one- and two-letter names are taken for lambda variables
TokenAllowedShortNames(t) ==
    t \in keywords \/ t \in OneLetter \/ t \in {"id", "pk"} \/ t \in _FILTER_FIELDS

\* Lines 91-97: the test applied to one token
TokenAllowed(t) == t \in keywords \/ t \in OneLetter \/ t \in _FILTER_FIELDS

\* _is_filter_safe, lines 64-98
_is_filter_safe(filter_str) ==
    LET scrubbed == scrub(filter_str)
        tokens == {scrubbed[i] : i \in {k \in 1..Len(scrubbed) : IsIdentifier(scrubbed[k])}}
    IN  \A t \in tokens : TokenAllowed(t)

(***************************************************************************)
(* tools/azure_ai_search.py                                                *)
(***************************************************************************)
\* ",".join(codes), every code a list of characters
RECURSIVE JoinComma(_)
JoinComma(xs) ==
    IF xs = <<>> THEN <<>>
    ELSE IF Len(xs) = 1 THEN Head(xs)
    ELSE Head(xs) \o <<",">> \o JoinComma(Tail(xs))

\* security.rls.build_search_filter(allowed_codes, field_name)
build_search_filter(allowed_codes, field_name) ==
    IF allowed_codes = <<>> THEN <<"false">>
    ELSE <<field_name, "/", "any", "(", "t", ":", " ", "search", ".", "in", "(",
           "t", ",", " ", Quote>> \o JoinComma(allowed_codes)
         \o <<Quote, ",", " ", Quote, ",", Quote, ")", ")">>

_consignee_field == "consignee_code_ids"

\* AzureAISearchTool._consignee_filter, lines 71-95
_consignee_filter(codes, is_collection) ==
    IF codes = <<>> THEN <<"false">>
    ELSE LET clean_codes == StripNonBlank(codes) IN
         IF clean_codes = <<>> THEN <<"false">>
         ELSE IF is_collection
              THEN build_search_filter(clean_codes, _consignee_field)
              ELSE <<"search", ".", "in", "(", _consignee_field, ",", " ", Quote>>
                   \o JoinComma(clean_codes)
                   \o <<Quote, ",", " ", Quote, ",", Quote, ")">>

\* A slip: a plan filter given, the authorization predicate is OR-ed
FinalFilterOr(base_filter, extra_filter) ==
    IF extra_filter = <<>> THEN base_filter
    ELSE <<"(">> \o base_filter \o <<")", " ", "or", " ", "(">>
         \o extra_filter \o <<")">>

\* AzureAISearchTool.search, lines 119-122: the filter sent to the engine
FinalFilter(base_filter, extra_filter) ==
    IF extra_filter = <<>> THEN base_filter
    ELSE <<"(">> \o base_filter \o <<")", " ", "and", " ", "(">>
         \o extra_filter \o <<")">>

\* A slip: a search without a vector is sent without the caller's extra filter
SearchRequestTextOnlyUnfiltered(consignee_codes, extra_filter, is_collection, vector) ==
    LET sent == IF vector = None THEN <<>> ELSE extra_filter
    IN  [codes |-> consignee_codes,
         extra |-> sent,
         base |-> _consignee_filter(consignee_codes, is_collection),
         filter |-> FinalFilter(_consignee_filter(consignee_codes, is_collection),
                                sent),
         vector |-> vector]

\* AzureAISearchTool.search, lines 97-152: the request handed to the engine
SearchRequest(consignee_codes, extra_filter, is_collection, vector) ==
    [codes |-> consignee_codes,
     extra |-> extra_filter,
     base |-> _consignee_filter(consignee_codes, is_collection),
     filter |-> FinalFilter(_consignee_filter(consignee_codes, is_collection),
                            extra_filter),
     vector |-> vector]


(***************************************************************************)
(* Questions.  The nodes only test a question with regular expressions and *)
(* substring checks; QuestionInfo tabulates, for every text of the model,  *)
(* the value each of those tests has on it:                                *)
(*   lower            str.lower()                                          *)
(*   strip_prefix,    normalizer._strip_new_topic_prefix                   *)
(*   forced                                                                *)
(*   anaphora         normalizer._has_anaphora                             *)
(*   time_window      normalizer._contains_time_window                     *)
(*   ids              normalizer._contains_ids                             *)
(*   choice           normalizer._parse_topic_shift_choice                 *)
(*   control          normalizer._is_control_reply                         *)
(*   overview         static_greet_info_handler.should_handle_overview     *)
(*   final_destination  planner._mentions_final_destination                *)
(*   delay_days       planner._extract_delay_days                          *)
(*   bucket_chart     planner._wants_bucket_chart                          *)
(*   window_days      extractor._parse_time_window_days                    *)
(*   test_intent,     intent_node's keyword rules of test mode             *)
(*   test_sub_intents                                                      *)
(***************************************************************************)
NoChoice == "<no choice>"

Questions ==
    {"Where is it?",
     "How many shipments do I have?",
     "Where is container ABCD1234567?",
     "1",
     "2",
     "previous",
     "hello",
     "What is MCS?",
     "Delay chart by week",
     "new topic: How many shipments do I have?",
     "new topic:",
     "Shipments to final destination delayed 5 days",
     "How many shipments do I have for container ABCD1234567?",
     "How many shipments do I have in the next 7 days?",
     "",
     "a",
     "b",
     "use previous",
     "use previous context",
     "use context",
     "same",
     "new",
     "new topic",
     "ignore",
     "ignore previous",
     "ignore previous context",
     "where is it?",
     "how many shipments do i have?",
     "where is container abcd1234567?",
     "what is mcs?",
     "delay chart by week",
     "new topic: how many shipments do i have?",
     "shipments to final destination delayed 5 days",
     "how many shipments do i have for container abcd1234567?",
     "how many shipments do i have in the next 7 days?"}

QuestionInfo(q) ==
    CASE
    q = "Where is it?" -> [lower |-> "where is it?", strip_prefix |-> "Where is it?", forced |-> FALSE,
          anaphora |-> TRUE, time_window |-> FALSE, ids |-> FALSE, choice |-> NoChoice,
          control |-> FALSE, overview |-> FALSE, final_destination |-> FALSE,
          delay_days |-> NoInt, bucket_chart |-> FALSE, window_days |-> NoInt,
          test_intent |-> "retrieval",
          test_sub_intents |-> <<"retrieval">>]
    []
    q = "How many shipments do I have?" -> [lower |-> "how many shipments do i have?", strip_prefix |-> "How many shipments do I have?", forced |-> FALSE,
          anaphora |-> FALSE, time_window |-> FALSE, ids |-> FALSE, choice |-> NoChoice,
          control |-> FALSE, overview |-> FALSE, final_destination |-> FALSE,
          delay_days |-> NoInt, bucket_chart |-> FALSE, window_days |-> NoInt,
          test_intent |-> "greeting",
          test_sub_intents |-> <<"greeting">>]
    []
    q = "Where is container ABCD1234567?" -> [lower |-> "where is container abcd1234567?", strip_prefix |-> "Where is container ABCD1234567?", forced |-> FALSE,
          anaphora |-> FALSE, time_window |-> FALSE, ids |-> TRUE, choice |-> NoChoice,
          control |-> FALSE, overview |-> FALSE, final_destination |-> FALSE,
          delay_days |-> NoInt, bucket_chart |-> FALSE, window_days |-> NoInt,
          test_intent |-> "retrieval",
          test_sub_intents |-> <<"retrieval">>]
    []
    q = "1" -> [lower |-> "1", strip_prefix |-> "1", forced |-> FALSE,
          anaphora |-> FALSE, time_window |-> FALSE, ids |-> FALSE, choice |-> "use_previous",
          control |-> TRUE, overview |-> FALSE, final_destination |-> FALSE,
          delay_days |-> NoInt, bucket_chart |-> FALSE, window_days |-> NoInt,
          test_intent |-> "retrieval",
          test_sub_intents |-> <<"retrieval">>]
    []
    q = "2" -> [lower |-> "2", strip_prefix |-> "2", forced |-> FALSE,
          anaphora |-> FALSE, time_window |-> FALSE, ids |-> FALSE, choice |-> "new_topic",
          control |-> TRUE, overview |-> FALSE, final_destination |-> FALSE,
          delay_days |-> NoInt, bucket_chart |-> FALSE, window_days |-> NoInt,
          test_intent |-> "retrieval",
          test_sub_intents |-> <<"retrieval">>]
    []
    q = "previous" -> [lower |-> "previous", strip_prefix |-> "previous", forced |-> FALSE,
          anaphora |-> TRUE, time_window |-> FALSE, ids |-> FALSE, choice |-> NoChoice,
          control |-> TRUE, overview |-> FALSE, final_destination |-> FALSE,
          delay_days |-> NoInt, bucket_chart |-> FALSE, window_days |-> NoInt,
          test_intent |-> "retrieval",
          test_sub_intents |-> <<"retrieval">>]
    []
    q = "hello" -> [lower |-> "hello", strip_prefix |-> "hello", forced |-> FALSE,
          anaphora |-> FALSE, time_window |-> FALSE, ids |-> FALSE, choice |-> NoChoice,
          control |-> FALSE, overview |-> FALSE, final_destination |-> FALSE,
          delay_days |-> NoInt, bucket_chart |-> FALSE, window_days |-> NoInt,
          test_intent |-> "greeting",
          test_sub_intents |-> <<"greeting">>]
    []
    q = "What is MCS?" -> [lower |-> "what is mcs?", strip_prefix |-> "What is MCS?", forced |-> FALSE,
          anaphora |-> FALSE, time_window |-> FALSE, ids |-> FALSE, choice |-> NoChoice,
          control |-> FALSE, overview |-> TRUE, final_destination |-> FALSE,
          delay_days |-> NoInt, bucket_chart |-> FALSE, window_days |-> NoInt,
          test_intent |-> "retrieval",
          test_sub_intents |-> <<"retrieval">>]
    []
    q = "Delay chart by week" -> [lower |-> "delay chart by week", strip_prefix |-> "Delay chart by week", forced |-> FALSE,
          anaphora |-> FALSE, time_window |-> FALSE, ids |-> FALSE, choice |-> NoChoice,
          control |-> FALSE, overview |-> FALSE, final_destination |-> FALSE,
          delay_days |-> 0, bucket_chart |-> TRUE, window_days |-> NoInt,
          test_intent |-> "analytics",
          test_sub_intents |-> <<"analytics", "delay">>]
    []
    q = "new topic: How many shipments do I have?" -> [lower |-> "new topic: how many shipments do i have?", strip_prefix |-> "How many shipments do I have?", forced |-> TRUE,
          anaphora |-> FALSE, time_window |-> FALSE, ids |-> FALSE, choice |-> NoChoice,
          control |-> FALSE, overview |-> FALSE, final_destination |-> FALSE,
          delay_days |-> NoInt, bucket_chart |-> FALSE, window_days |-> NoInt,
          test_intent |-> "greeting",
          test_sub_intents |-> <<"greeting">>]
    []
    q = "new topic:" -> [lower |-> "new topic:", strip_prefix |-> "", forced |-> TRUE,
          anaphora |-> FALSE, time_window |-> FALSE, ids |-> FALSE, choice |-> NoChoice,
          control |-> FALSE, overview |-> FALSE, final_destination |-> FALSE,
          delay_days |-> NoInt, bucket_chart |-> FALSE, window_days |-> NoInt,
          test_intent |-> "retrieval",
          test_sub_intents |-> <<"retrieval">>]
    []
    q = "Shipments to final destination delayed 5 days" -> [lower |-> "shipments to final destination delayed 5 days", strip_prefix |-> "Shipments to final destination delayed 5 days", forced |-> FALSE,
          anaphora |-> FALSE, time_window |-> FALSE, ids |-> FALSE, choice |-> NoChoice,
          control |-> FALSE, overview |-> FALSE, final_destination |-> TRUE,
          delay_days |-> 5, bucket_chart |-> FALSE, window_days |-> NoInt,
          test_intent |-> "greeting",
          test_sub_intents |-> <<"greeting", "delay">>]
    []
    q = "How many shipments do I have for container ABCD1234567?" -> [lower |-> "how many shipments do i have for container abcd1234567?", strip_prefix |-> "How many shipments do I have for container ABCD1234567?", forced |-> FALSE,
          anaphora |-> FALSE, time_window |-> FALSE, ids |-> TRUE, choice |-> NoChoice,
          control |-> FALSE, overview |-> FALSE, final_destination |-> FALSE,
          delay_days |-> NoInt, bucket_chart |-> FALSE, window_days |-> NoInt,
          test_intent |-> "greeting",
          test_sub_intents |-> <<"greeting">>]
    []
    q = "How many shipments do I have in the next 7 days?" -> [lower |-> "how many shipments do i have in the next 7 days?", strip_prefix |-> "How many shipments do I have in the next 7 days?", forced |-> FALSE,
          anaphora |-> FALSE, time_window |-> TRUE, ids |-> FALSE, choice |-> NoChoice,
          control |-> FALSE, overview |-> FALSE, final_destination |-> FALSE,
          delay_days |-> NoInt, bucket_chart |-> FALSE, window_days |-> 7,
          test_intent |-> "greeting",
          test_sub_intents |-> <<"greeting">>]
    []
    q = "" -> [lower |-> "", strip_prefix |-> "", forced |-> FALSE,
          anaphora |-> FALSE, time_window |-> FALSE, ids |-> FALSE, choice |-> NoChoice,
          control |-> FALSE, overview |-> FALSE, final_destination |-> FALSE,
          delay_days |-> NoInt, bucket_chart |-> FALSE, window_days |-> NoInt,
          test_intent |-> "retrieval",
          test_sub_intents |-> <<"retrieval">>]
    []
    q = "a" -> [lower |-> "a", strip_prefix |-> "a", forced |-> FALSE,
          anaphora |-> FALSE, time_window |-> FALSE, ids |-> FALSE, choice |-> "use_previous",
          control |-> TRUE, overview |-> FALSE, final_destination |-> FALSE,
          delay_days |-> NoInt, bucket_chart |-> FALSE, window_days |-> NoInt,
          test_intent |-> "retrieval",
          test_sub_intents |-> <<"retrieval">>]
    []
    q = "b" -> [lower |-> "b", strip_prefix |-> "b", forced |-> FALSE,
          anaphora |-> FALSE, time_window |-> FALSE, ids |-> FALSE, choice |-> "new_topic",
          control |-> TRUE, overview |-> FALSE, final_destination |-> FALSE,
          delay_days |-> NoInt, bucket_chart |-> FALSE, window_days |-> NoInt,
          test_intent |-> "retrieval",
          test_sub_intents |-> <<"retrieval">>]
    []
    q = "use previous" -> [lower |-> "use previous", strip_prefix |-> "use previous", forced |-> FALSE,
          anaphora |-> TRUE, time_window |-> FALSE, ids |-> FALSE, choice |-> "use_previous",
          control |-> TRUE, overview |-> FALSE, final_destination |-> FALSE,
          delay_days |-> NoInt, bucket_chart |-> FALSE, window_days |-> NoInt,
          test_intent |-> "retrieval",
          test_sub_intents |-> <<"retrieval">>]
    []
    q = "use previous context" -> [lower |-> "use previous context", strip_prefix |-> "use previous context", forced |-> FALSE,
          anaphora |-> TRUE, time_window |-> FALSE, ids |-> FALSE, choice |-> "use_previous",
          control |-> TRUE, overview |-> FALSE, final_destination |-> FALSE,
          delay_days |-> NoInt, bucket_chart |-> FALSE, window_days |-> NoInt,
          test_intent |-> "retrieval",
          test_sub_intents |-> <<"retrieval">>]
    []
    q = "use context" -> [lower |-> "use context", strip_prefix |-> "use context", forced |-> FALSE,
          anaphora |-> FALSE, time_window |-> FALSE, ids |-> FALSE, choice |-> "use_previous",
          control |-> TRUE, overview |-> FALSE, final_destination |-> FALSE,
          delay_days |-> NoInt, bucket_chart |-> FALSE, window_days |-> NoInt,
          test_intent |-> "retrieval",
          test_sub_intents |-> <<"retrieval">>]
    []
    q = "same" -> [lower |-> "same", strip_prefix |-> "same", forced |-> FALSE,
          anaphora |-> TRUE, time_window |-> FALSE, ids |-> FALSE, choice |-> NoChoice,
          control |-> TRUE, overview |-> FALSE, final_destination |-> FALSE,
          delay_days |-> NoInt, bucket_chart |-> FALSE, window_days |-> NoInt,
          test_intent |-> "retrieval",
          test_sub_intents |-> <<"retrieval">>]
    []
    q = "new" -> [lower |-> "new", strip_prefix |-> "new", forced |-> FALSE,
          anaphora |-> FALSE, time_window |-> FALSE, ids |-> FALSE, choice |-> "new_topic",
          control |-> TRUE, overview |-> FALSE, final_destination |-> FALSE,
          delay_days |-> NoInt, bucket_chart |-> FALSE, window_days |-> NoInt,
          test_intent |-> "retrieval",
          test_sub_intents |-> <<"retrieval">>]
    []
    q = "new topic" -> [lower |-> "new topic", strip_prefix |-> "new topic", forced |-> FALSE,
          anaphora |-> FALSE, time_window |-> FALSE, ids |-> FALSE, choice |-> "new_topic",
          control |-> TRUE, overview |-> FALSE, final_destination |-> FALSE,
          delay_days |-> NoInt, bucket_chart |-> FALSE, window_days |-> NoInt,
          test_intent |-> "retrieval",
          test_sub_intents |-> <<"retrieval">>]
    []
    q = "ignore" -> [lower |-> "ignore", strip_prefix |-> "ignore", forced |-> FALSE,
          anaphora |-> FALSE, time_window |-> FALSE, ids |-> FALSE, choice |-> "new_topic",
          control |-> TRUE, overview |-> FALSE, final_destination |-> FALSE,
          delay_days |-> NoInt, bucket_chart |-> FALSE, window_days |-> NoInt,
          test_intent |-> "retrieval",
          test_sub_intents |-> <<"retrieval">>]
    []
    q = "ignore previous" -> [lower |-> "ignore previous", strip_prefix |-> "ignore previous", forced |-> FALSE,
          anaphora |-> TRUE, time_window |-> FALSE, ids |-> FALSE, choice |-> "new_topic",
          control |-> TRUE, overview |-> FALSE, final_destination |-> FALSE,
          delay_days |-> NoInt, bucket_chart |-> FALSE, window_days |-> NoInt,
          test_intent |-> "retrieval",
          test_sub_intents |-> <<"retrieval">>]
    []
    q = "ignore previous context" -> [lower |-> "ignore previous context", strip_prefix |-> "ignore previous context", forced |-> FALSE,
          anaphora |-> TRUE, time_window |-> FALSE, ids |-> FALSE, choice |-> NoChoice,
          control |-> TRUE, overview |-> FALSE, final_destination |-> FALSE,
          delay_days |-> NoInt, bucket_chart |-> FALSE, window_days |-> NoInt,
          test_intent |-> "retrieval",
          test_sub_intents |-> <<"retrieval">>]
    []
    q = "where is it?" -> [lower |-> "where is it?", strip_prefix |-> "where is it?", forced |-> FALSE,
          anaphora |-> TRUE, time_window |-> FALSE, ids |-> FALSE, choice |-> NoChoice,
          control |-> FALSE, overview |-> FALSE, final_destination |-> FALSE,
          delay_days |-> NoInt, bucket_chart |-> FALSE, window_days |-> NoInt,
          test_intent |-> "retrieval",
          test_sub_intents |-> <<"retrieval">>]
    []
    q = "how many shipments do i have?" -> [lower |-> "how many shipments do i have?", strip_prefix |-> "how many shipments do i have?", forced |-> FALSE,
          anaphora |-> FALSE, time_window |-> FALSE, ids |-> FALSE, choice |-> NoChoice,
          control |-> FALSE, overview |-> FALSE, final_destination |-> FALSE,
          delay_days |-> NoInt, bucket_chart |-> FALSE, window_days |-> NoInt,
          test_intent |-> "greeting",
          test_sub_intents |-> <<"greeting">>]
    []
    q = "where is container abcd1234567?" -> [lower |-> "where is container abcd1234567?", strip_prefix |-> "where is container abcd1234567?", forced |-> FALSE,
          anaphora |-> FALSE, time_window |-> FALSE, ids |-> TRUE, choice |-> NoChoice,
          control |-> FALSE, overview |-> FALSE, final_destination |-> FALSE,
          delay_days |-> NoInt, bucket_chart |-> FALSE, window_days |-> NoInt,
          test_intent |-> "retrieval",
          test_sub_intents |-> <<"retrieval">>]
    []
    q = "what is mcs?" -> [lower |-> "what is mcs?", strip_prefix |-> "what is mcs?", forced |-> FALSE,
          anaphora |-> FALSE, time_window |-> FALSE, ids |-> FALSE, choice |-> NoChoice,
          control |-> FALSE, overview |-> TRUE, final_destination |-> FALSE,
          delay_days |-> NoInt, bucket_chart |-> FALSE, window_days |-> NoInt,
          test_intent |-> "retrieval",
          test_sub_intents |-> <<"retrieval">>]
    []
    q = "delay chart by week" -> [lower |-> "delay chart by week", strip_prefix |-> "delay chart by week", forced |-> FALSE,
          anaphora |-> FALSE, time_window |-> FALSE, ids |-> FALSE, choice |-> NoChoice,
          control |-> FALSE, overview |-> FALSE, final_destination |-> FALSE,
          delay_days |-> 0, bucket_chart |-> TRUE, window_days |-> NoInt,
          test_intent |-> "analytics",
          test_sub_intents |-> <<"analytics", "delay">>]
    []
    q = "new topic: how many shipments do i have?" -> [lower |-> "new topic: how many shipments do i have?", strip_prefix |-> "how many shipments do i have?", forced |-> TRUE,
          anaphora |-> FALSE, time_window |-> FALSE, ids |-> FALSE, choice |-> NoChoice,
          control |-> FALSE, overview |-> FALSE, final_destination |-> FALSE,
          delay_days |-> NoInt, bucket_chart |-> FALSE, window_days |-> NoInt,
          test_intent |-> "greeting",
          test_sub_intents |-> <<"greeting">>]
    []
    q = "shipments to final destination delayed 5 days" -> [lower |-> "shipments to final destination delayed 5 days", strip_prefix |-> "shipments to final destination delayed 5 days", forced |-> FALSE,
          anaphora |-> FALSE, time_window |-> FALSE, ids |-> FALSE, choice |-> NoChoice,
          control |-> FALSE, overview |-> FALSE, final_destination |-> TRUE,
          delay_days |-> 5, bucket_chart |-> FALSE, window_days |-> NoInt,
          test_intent |-> "greeting",
          test_sub_intents |-> <<"greeting", "delay">>]
    []
    q = "how many shipments do i have for container abcd1234567?" -> [lower |-> "how many shipments do i have for container abcd1234567?", strip_prefix |-> "how many shipments do i have for container abcd1234567?", forced |-> FALSE,
          anaphora |-> FALSE, time_window |-> FALSE, ids |-> TRUE, choice |-> NoChoice,
          control |-> FALSE, overview |-> FALSE, final_destination |-> FALSE,
          delay_days |-> NoInt, bucket_chart |-> FALSE, window_days |-> NoInt,
          test_intent |-> "greeting",
          test_sub_intents |-> <<"greeting">>]
    []
    q = "how many shipments do i have in the next 7 days?" -> [lower |-> "how many shipments do i have in the next 7 days?", strip_prefix |-> "how many shipments do i have in the next 7 days?", forced |-> FALSE,
          anaphora |-> FALSE, time_window |-> TRUE, ids |-> FALSE, choice |-> NoChoice,
          control |-> FALSE, overview |-> FALSE, final_destination |-> FALSE,
          delay_days |-> NoInt, bucket_chart |-> FALSE, window_days |-> 7,
          test_intent |-> "greeting",
          test_sub_intents |-> <<"greeting">>]

UserQuestions ==
    {"Where is it?",
     "How many shipments do I have?",
     "Where is container ABCD1234567?",
     "1",
     "2",
     "previous",
     "hello",
     "What is MCS?",
     "Delay chart by week",
     "new topic: How many shipments do I have?",
     "new topic:",
     "Shipments to final destination delayed 5 days"}

LlmRewrites ==
    {"How many shipments do I have for container ABCD1234567?",
     "How many shipments do I have in the next 7 days?",
     "",
     "Where is it?",
     "How many shipments do I have?",
     "Where is container ABCD1234567?"}

(***************************************************************************)
(* GraphState                                                              *)
(***************************************************************************)
NoCandidate == [set |-> FALSE]

NoPending == [set |-> FALSE]

NoPlan == [set |-> FALSE]

NoAnalytics == [set |-> FALSE]

NoTable == [set |-> FALSE]

NoExtracted ==
    [container_number |-> <<>>, po_numbers |-> <<>>, booking_numbers |-> <<>>,
     obl_nos |-> <<>>, status_keywords |-> <<>>, location |-> <<>>]

\* scripts/test_session.py, line 21
max_retries == 3

\* The state of a conversation no turn has run on
EmptyState ==
    [question_raw |-> "", normalized_question |-> "", consignee_codes |-> <<>>,
     messages |-> <<>>, pending_topic_shift |-> NoPending,
     topic_shift_candidate |-> NoCandidate, intent |-> None,
     sub_intents |-> <<>>, extracted_ids |-> NoExtracted,
     time_window_days |-> NoInt, retrieval_plan |-> NoPlan, hits |-> <<>>,
     idx_analytics |-> NoAnalytics, answer_text |-> None, citations |-> <<>>,
     table_spec |-> NoTable, errors |-> <<>>, notices |-> <<>>,
     is_satisfied |-> FALSE, retry_count |-> 0, max_retries |-> max_retries,
     reflection_feedback |-> None, usage_metadata |-> 0]

\* The nodes' "Accumulate usage" block: a response of the chat service adds
\* its token counts to the conversation's totals (one unit per response)
AccumulateUsage(s, responded) ==
    IF responded THEN [s EXCEPT !.usage_metadata = @ + 1] ELSE s

(***************************************************************************)
(* graph/nodes/normalizer.py                                               *)
(***************************************************************************)
\* A slip: the anaphora test of the raw question is left out
TopicShiftNoAnaphoraTest(raw_question, normalized_question) ==
    IF raw_question = "" \/ normalized_question = "" THEN NoCandidate
    ELSE IF QuestionInfo(raw_question).lower = QuestionInfo(normalized_question).lower
    THEN NoCandidate
    ELSE LET raw == QuestionInfo(raw_question).lower
             norm == QuestionInfo(normalized_question).lower
             added ==
                 (IF QuestionInfo(norm).time_window /\ ~QuestionInfo(raw).time_window
                  THEN <<"time_window">> ELSE <<>>)
                 \o (IF QuestionInfo(norm).ids /\ ~QuestionInfo(raw).ids
                     THEN <<"ids">> ELSE <<>>)
         IN  IF added = <<>> THEN NoCandidate
             ELSE [set |-> TRUE, raw |-> raw_question,
                   normalized |-> normalized_question, added |-> added]

\* _topic_shift_candidate, lines 120-143
_topic_shift_candidate(raw_question, normalized_question) ==
    IF raw_question = "" \/ normalized_question = "" THEN NoCandidate
    ELSE IF QuestionInfo(raw_question).lower = QuestionInfo(normalized_question).lower
    THEN NoCandidate
    ELSE IF QuestionInfo(QuestionInfo(raw_question).lower).anaphora THEN NoCandidate
    ELSE LET raw == QuestionInfo(raw_question).lower
             norm == QuestionInfo(normalized_question).lower
             added ==
                 (IF QuestionInfo(norm).time_window /\ ~QuestionInfo(raw).time_window
                  THEN <<"time_window">> ELSE <<>>)
                 \o (IF QuestionInfo(norm).ids /\ ~QuestionInfo(raw).ids
                     THEN <<"ids">> ELSE <<>>)
         IN  IF added = <<>> THEN NoCandidate
             ELSE [set |-> TRUE, raw |-> raw_question,
                   normalized |-> normalized_question, added |-> added]

\* The rewrite service: it fails, or answers with some text
LlmFail == [ok |-> FALSE, content |-> ""]

LlmSays(text) == [ok |-> TRUE, content |-> text]

\* normalize_node, lines 155-177: a pending choice and a reply that picks one
NormalizeAppliesChoice(s) ==
    LET question == QuestionInfo(s.question_raw).strip_prefix
    IN  s.pending_topic_shift.set /\ QuestionInfo(question).choice # NoChoice

\* normalize_node, lines 184-193: no rewrite is asked for
NormalizeSkipsRewrite(s, test_mode) ==
    \/ test_mode
    \/ QuestionInfo(s.question_raw).forced
    \/ Len(s.messages) <= 1

\* normalize_node calls the rewrite service
NormalizeCallsChat(s, test_mode) ==
    ~NormalizeAppliesChoice(s) /\ ~NormalizeSkipsRewrite(s, test_mode)

\* normalize_node, lines 146-259
normalize_node(s, test_mode, llm) ==
    LET question == QuestionInfo(s.question_raw).strip_prefix
        forced_new_topic == QuestionInfo(s.question_raw).forced
        s1 == IF forced_new_topic THEN [s EXCEPT !.question_raw = question] ELSE s
        pending == s1.pending_topic_shift
        choice == QuestionInfo(question).choice
    IN  IF pending.set /\ choice # NoChoice
        THEN LET picked == IF choice = "use_previous" THEN pending.normalized
                           ELSE pending.raw
                 chosen == IF picked = "" THEN question ELSE picked
             IN  [s1 EXCEPT !.question_raw = chosen,
                            !.normalized_question = QuestionInfo(chosen).lower,
                            !.pending_topic_shift = NoPending,
                            !.topic_shift_candidate = NoCandidate,
                            !.messages = Append(@, "human")]
        ELSE LET s2 == IF pending.set /\ ~QuestionInfo(question).control
                       THEN [s1 EXCEPT !.pending_topic_shift = NoPending]
                       ELSE s1
             IN  IF test_mode \/ forced_new_topic \/ Len(s2.messages) <= 1
                 THEN [s2 EXCEPT !.normalized_question = QuestionInfo(question).lower,
                                 !.topic_shift_candidate = NoCandidate]
                 ELSE LET normalized == IF llm.ok THEN QuestionInfo(llm.content).lower
                                        ELSE QuestionInfo(question).lower
                      IN  [s2 EXCEPT !.normalized_question = normalized,
                                     !.topic_shift_candidate =
                                         _topic_shift_candidate(question, normalized)]

(***************************************************************************)
(* graph/nodes/intent.py                                                   *)
(***************************************************************************)
valid_intents == {"retrieval", "analytics", "greeting", "company_overview", "end"}

\* What the classifier may answer: the call raises, the reply is not JSON, or
\* the reply is a JSON object with this primary_intent
ClassifierLabels == valid_intents \cup {"clarification", "status", "smalltalk"}

\* "not_object" is a reply that parses as JSON but is no object with a string
\* primary_intent: data.get or .lower() raises inside the outer try
ClassifierOutcomes ==
    {[kind |-> "raise", label |-> ""], [kind |-> "bad_json", label |-> ""],
     [kind |-> "not_object", label |-> ""]}
    \cup {[kind |-> "json", label |-> l] : l \in ClassifierLabels}

\* intent_node returns without calling the classifier
IntentIsDeterministic(s, test_mode) ==
    \/ s.normalized_question = ""
    \/ QuestionInfo(s.normalized_question).overview
    \/ test_mode

\* Lines 72-79 and 165-172: the canned greeting
WithGreeting(s, intent) ==
    IF intent = "greeting"
    THEN [s EXCEPT !.answer_text = "greeting", !.messages = Append(@, "ai"),
                   !.is_satisfied = TRUE]
    ELSE s

\* A slip: the label of the classifier is taken without the valid-intents check
intent_node_labels_unchecked(s, test_mode, llm) ==
    LET text == s.normalized_question IN
    IF text = "" THEN [s EXCEPT !.intent = "end"]
    ELSE IF QuestionInfo(text).overview
    THEN [s EXCEPT !.intent = "company_overview",
                   !.sub_intents = <<"company_overview">>]
    ELSE IF test_mode
    THEN LET intent == QuestionInfo(text).test_intent
         IN  WithGreeting([s EXCEPT !.intent = intent,
                                    !.sub_intents = QuestionInfo(text).test_sub_intents],
                          intent)
    ELSE LET intent == IF llm.kind = "json" THEN llm.label ELSE "retrieval"
             sub_intents == IF llm.kind = "json" THEN <<llm.label>>
                            ELSE <<"retrieval">>
         IN  WithGreeting([s EXCEPT !.intent = intent, !.sub_intents = sub_intents],
                          intent)

\* intent_node, lines 20-174 (the returned keys merged into the state)
intent_node(s, test_mode, llm) ==
    LET text == s.normalized_question IN
    IF text = "" THEN [s EXCEPT !.intent = "end"]
    ELSE IF QuestionInfo(text).overview
    THEN [s EXCEPT !.intent = "company_overview",
                   !.sub_intents = <<"company_overview">>]
    ELSE IF test_mode
    THEN LET intent == QuestionInfo(text).test_intent
         IN  WithGreeting([s EXCEPT !.intent = intent,
                                    !.sub_intents = QuestionInfo(text).test_sub_intents],
                          intent)
    ELSE LET intent == IF llm.kind = "json" /\ llm.label \in valid_intents
                       THEN llm.label ELSE "retrieval"
             \* data.get("intents"): the classifier lists its primary label
             sub_intents == IF llm.kind = "json" THEN <<llm.label>>
                            ELSE <<"retrieval">>
         IN  WithGreeting([s EXCEPT !.intent = intent, !.sub_intents = sub_intents],
                          intent)

(***************************************************************************)
(* graph/nodes/router.py                                                   *)
(***************************************************************************)
\* A slip: the legacy labels status, eta and delay are not known
route_node_no_legacy_labels(s) ==
    IF s.intent = "company_overview" THEN "static_info"
    ELSE IF s.intent = "analytics" /\ s.topic_shift_candidate.set THEN "clarification"
    ELSE IF s.intent = "analytics" THEN "analytics"
    ELSE IF s.intent = "clarification" THEN "clarification"
    ELSE IF s.intent = "retrieval" THEN "retrieval"
    ELSE "end"

\* A slip: a topic-shift candidate no longer sends analytics to clarification
route_node_no_shift_check(s) ==
    IF s.intent = "company_overview" THEN "static_info"
    ELSE IF s.intent = "analytics" THEN "analytics"
    ELSE IF s.intent = "clarification" THEN "clarification"
    ELSE IF s.intent \in {"retrieval", "status", "eta", "delay"} THEN "retrieval"
    ELSE "end"

\* route_node, lines 7-30
route_node(s) ==
    IF s.intent = "company_overview" THEN "static_info"
    ELSE IF s.intent = "analytics" /\ s.topic_shift_candidate.set THEN "clarification"
    ELSE IF s.intent = "analytics" THEN "analytics"
    ELSE IF s.intent = "clarification" THEN "clarification"
    ELSE IF s.intent \in {"retrieval", "status", "eta", "delay"} THEN "retrieval"
    ELSE "end"

(***************************************************************************)
(* graph/nodes/clarification.py                                            *)
(***************************************************************************)
\* clarification_node answers from the topic-shift candidate, without a call
ClarifiesTopicShift(s) == s.topic_shift_candidate.set

\* clarification_node, lines 20-103
clarification_node(s, llm) ==
    IF s.topic_shift_candidate.set
    THEN LET topic_shift == s.topic_shift_candidate
             raw_q == IF topic_shift.raw = "" THEN s.question_raw ELSE topic_shift.raw
             norm_q == IF topic_shift.normalized # "" THEN topic_shift.normalized
                       ELSE IF s.normalized_question # "" THEN s.normalized_question
                       ELSE s.question_raw
         IN  [s EXCEPT !.answer_text = "two_choices",
                       !.messages = Append(@, "ai"),
                       !.is_satisfied = TRUE,
                       !.intent = "clarification",
                       !.pending_topic_shift =
                           [set |-> TRUE, raw |-> raw_q, normalized |-> norm_q],
                       !.topic_shift_candidate = NoCandidate]
    ELSE IF llm.ok
    THEN [s EXCEPT !.answer_text = "clarifying_question",
                   !.messages = Append(@, "ai"),
                   !.is_satisfied = TRUE,
                   !.intent = "clarification"]
    ELSE [s EXCEPT !.answer_text = "please_provide_details",
                   !.is_satisfied = TRUE,
                   !.intent = "clarification"]

(***************************************************************************)
(* graph/nodes/static_greet_info_handler.py                                *)
(***************************************************************************)
\* static_greet_info_node, lines 626-661; configured: the overview file has text
static_greet_info_node(s, configured) ==
    LET s1 == [s EXCEPT !.intent = "company_overview",
                        !.answer_text = IF configured THEN "overview"
                                        ELSE "overview_not_configured",
                        !.is_satisfied = TRUE,
                        !.messages = Append(@, "ai")]
    IN  IF configured THEN s1
        ELSE [s1 EXCEPT !.notices = <<"overview_missing">>]


(***************************************************************************)
(* graph/nodes/extractor.py                                                *)
(***************************************************************************)
\* extractor_node, lines 98-99 and 133-138: the time window read from the
\* question.  None of the model's questions contains "soon", so no notice is
\* added.
extractor_node(s) ==
    LET q == IF s.normalized_question # "" THEN s.normalized_question
             ELSE s.question_raw
        days == QuestionInfo(q).window_days
    IN  [s EXCEPT !.time_window_days = IF days # NoInt THEN days ELSE @]

\* The entity pass that fills extracted_ids, the mapping the Planner reads
WithExtractedIds(s, extracted) == [s EXCEPT !.extracted_ids = extracted]

(***************************************************************************)
(* graph/nodes/planner.py                                                  *)
(***************************************************************************)
\* Entity values are token lists: a word, or words around a quote character
Val(word) == <<word>>

\* planner._safe, lines 141-142: every quote is doubled
RECURSIVE _safe(_)
_safe(v) ==
    IF v = <<>> THEN <<>>
    ELSE (IF Head(v) = Quote THEN <<Quote, Quote>> ELSE <<Head(v)>>) \o _safe(Tail(v))

RECURSIVE JoinSafe(_)
JoinSafe(values) ==
    IF values = <<>> THEN <<>>
    ELSE IF Len(values) = 1 THEN _safe(Head(values))
    ELSE _safe(Head(values)) \o <<",">> \o JoinSafe(Tail(values))

\* planner._any_in, lines 144-146
_any_in(field, values) ==
    <<field, "/", "any", "(", "t", ":", " ", "search", ".", "in", "(", "t", ",",
      " ", Quote>> \o JoinSafe(values)
    \o <<Quote, ",", " ", Quote, ",", Quote, ")", ")">>

\* " or ".join(parts) and " and ".join(parts)
RECURSIVE JoinWith(_, _)
JoinWith(parts, word) ==
    IF parts = <<>> THEN <<>>
    ELSE IF Len(parts) = 1 THEN Head(parts)
    ELSE Head(parts) \o <<" ", word, " ">> \o JoinWith(Tail(parts), word)

Paren(f) == <<"(">> \o f \o <<")">>

RECURSIVE MapEq(_, _)
MapEq(field, values) ==
    IF values = <<>> THEN <<>>
    ELSE << <<field, " ", "eq", " ", Quote>> \o _safe(Head(values)) \o <<Quote>> >>
         \o MapEq(field, Tail(values))

RECURSIVE MapContains(_, _)
MapContains(field, values) ==
    IF values = <<>> THEN <<>>
    ELSE << <<"contains", "(", field, ",", " ", Quote>> \o _safe(Head(values))
            \o <<Quote, ")">> >>
         \o MapContains(field, Tail(values))

RECURSIVE Without(_, _)
Without(xs, drop) ==
    IF xs = <<>> THEN <<>>
    ELSE (IF Head(xs) \in drop THEN <<>> ELSE <<Head(xs)>>) \o Without(Tail(xs), drop)

\* A set of at most one element as a list (list(ambiguous_ids))
SetToList(S) == IF S = {} THEN <<>> ELSE <<CHOOSE x \in S : TRUE>>

\* planner.status_map, lines 255-263
status_map ==
    [k \in {"on water", "sailing", "in ocean", "delivered", "ready for pickup",
            "empty returned", "at discharge port"} |->
        CASE k \in {"on water", "sailing", "in ocean"} -> "IN_OCEAN"
          [] k = "delivered" -> "DELIVERED"
          [] k = "ready for pickup" -> "READY_FOR_PICKUP"
          [] k = "empty returned" -> "EMPTY_RETURNED"
          [] k = "at discharge port" -> "AT_DISCHARGE_PORT"]

\* sorted(statuses) for the status names of the model
StatusOrder == <<"AT_DISCHARGE_PORT", "DELIVERED", "EMPTY_RETURNED", "IN_OCEAN",
                 "READY_FOR_PICKUP">>

SortedStatuses(S) == Filter(StatusOrder, S)

\* What the planning model may answer: plan_data of lines 106-127.  An absent
\* key is "" / 0 / <<>>.
NoPlanData == [query_text |-> "", top_k |-> 0, extra_filter |-> <<>>]

Max(a, b) == IF a >= b THEN a ELSE b

\* A slip: identifiers shared between classes stay in their per-class pools
PlannerPoolsKeepShared(extracted) ==
    LET containers == extracted.container_number
        container_set == Elems(containers)
        po1 == Without(extracted.po_numbers, container_set)
        bk1 == Without(extracted.booking_numbers, container_set)
        ob1 == Without(extracted.obl_nos, container_set)
    IN  [containers |-> containers,
         po_numbers |-> po1,
         booking_numbers |-> bk1,
         obl_nos |-> ob1,
         ambiguous_ids |-> {},
         all_ids |-> container_set \cup Elems(extracted.obl_nos)
                     \cup Elems(po1) \cup Elems(bk1)]

\* Lines 180-206: the identifier pools after the overlap handling
PlannerPools(extracted) ==
    LET containers == extracted.container_number
        container_set == Elems(containers)
        po1 == Without(extracted.po_numbers, container_set)
        bk1 == Without(extracted.booking_numbers, container_set)
        ob1 == Without(extracted.obl_nos, container_set)
        ambiguous_ids == (Elems(po1) \cap Elems(bk1)) \cup (Elems(po1) \cap Elems(ob1))
                         \cup (Elems(bk1) \cap Elems(ob1))
    IN  [containers |-> containers,
         po_numbers |-> Without(po1, ambiguous_ids),
         booking_numbers |-> Without(bk1, ambiguous_ids),
         obl_nos |-> Without(ob1, ambiguous_ids),
         ambiguous_ids |-> ambiguous_ids,
         all_ids |-> container_set \cup Elems(extracted.obl_nos)
                     \cup Elems(Without(po1, ambiguous_ids))
                     \cup Elems(Without(bk1, ambiguous_ids)) \cup ambiguous_ids]

\* Lines 221-280: the filter clauses, in order
PlannerClauses(q, extracted, llm_filter) ==
    LET pools == PlannerPools(extracted)
        amb_list == SetToList(pools.ambiguous_ids)
        status_keywords == extracted.status_keywords
        statuses == {status_map[k] : k \in Elems(status_keywords) \cap DOMAIN status_map}
        location_field == IF QuestionInfo(q).final_destination
                          THEN "final_destination" ELSE "discharge_port"
    IN  (IF llm_filter # <<>> /\ pools.all_ids = {} THEN <<Paren(llm_filter)>> ELSE <<>>)
        \o (IF pools.containers # <<>>
            THEN <<Paren(JoinWith(MapEq("container_number", pools.containers), "or"))>>
            ELSE <<>>)
        \o (IF pools.po_numbers # <<>>
            THEN <<_any_in("po_numbers", pools.po_numbers)>> ELSE <<>>)
        \o (IF pools.booking_numbers # <<>>
            THEN <<_any_in("booking_numbers", pools.booking_numbers)>> ELSE <<>>)
        \o (IF pools.obl_nos # <<>>
            THEN <<_any_in("obl_nos", pools.obl_nos)>> ELSE <<>>)
        \o (IF pools.ambiguous_ids # {}
            THEN <<Paren(_any_in("po_numbers", amb_list) \o <<" ", "or", " ">>
                         \o _any_in("booking_numbers", amb_list) \o <<" ", "or", " ">>
                         \o _any_in("obl_nos", amb_list))>>
            ELSE <<>>)
        \o (IF statuses # {}
            THEN <<Paren(JoinWith(MapEq("shipment_status",
                                        [i \in 1..Len(SortedStatuses(statuses)) |->
                                            <<SortedStatuses(statuses)[i]>>]), "or"))>>
            ELSE <<>>)
        \o (IF Elems(status_keywords) \cap {"hot", "priority"} # {}
            THEN << <<"hot_container_flag", " ", "eq", " ", "true">> >> ELSE <<>>)
        \o (IF extracted.location # <<>>
            THEN <<Paren(JoinWith(MapContains(location_field, extracted.location), "or"))>>
            ELSE <<>>)

NoPostFilter == [date_window |-> [set |-> FALSE], delay |-> [set |-> FALSE]]

\* Lines 286-323
\* _extract_delay_days, lines 160-170, on what the text holds: a word
\* "delay" or "delayed", and the number of a "<n> day(s)" phrase if any
_extract_delay_days(mentions_delay, day_count) ==
    IF ~mentions_delay THEN NoInt
    ELSE IF day_count # NoInt THEN day_count
    ELSE 0

\* Lines 309-323: the delay rule written into the post-filter
DelayRule(delay_days, fd) ==
    IF delay_days # NoInt
    THEN [set |-> TRUE,
          field |-> IF fd THEN "fd_delayed_dur" ELSE "dp_delayed_dur",
          op |-> IF delay_days # 0 THEN ">=" ELSE ">",
          days |-> delay_days]
    ELSE [set |-> FALSE]

PlannerPostFilter(q, time_window_days) ==
    LET delay_days == QuestionInfo(q).delay_days
        fd == QuestionInfo(q).final_destination
    IN  [date_window |->
             IF time_window_days # NoInt /\ time_window_days # 0
             THEN [set |-> TRUE,
                   field |-> IF fd THEN "optimal_eta_fd_date" ELSE "optimal_ata_dp_date",
                   days |-> time_window_days, direction |-> "next"]
             ELSE [set |-> FALSE],
         delay |-> DelayRule(delay_days, fd)]

\* planner_node calls the planning model
PlannerCallsChat(test_mode) == ~test_mode

\* planner_node, lines 21-335.  plan_data is the model's parsed answer,
\* NoPlanData in test mode and when the call or the parsing fails.
planner_node(s, plan_data) ==
    LET q == IF s.normalized_question # "" THEN s.normalized_question
             ELSE s.question_raw
        extracted == s.extracted_ids
        pools == PlannerPools(extracted)
        clauses == PlannerClauses(q, extracted, plan_data.extra_filter)
        has_window == s.time_window_days # NoInt /\ s.time_window_days # 0
        bucket == QuestionInfo(q).bucket_chart
        text0 == IF plan_data.query_text # "" THEN plan_data.query_text ELSE q
        top0 == IF plan_data.top_k # 0 THEN plan_data.top_k ELSE 20
        top1 == IF has_window THEN Max(top0, 100) ELSE top0
        top2 == IF bucket THEN Max(top1, 500) ELSE top1
        fd == QuestionInfo(q).final_destination
    IN  [s EXCEPT !.retrieval_plan =
            [set |-> TRUE,
             query_text |->
                 [boost |-> pools.all_ids,
                  text |-> IF bucket /\ pools.all_ids = {} /\ text0 = q THEN "*"
                           ELSE text0],
             top_k |-> top2,
             extra_filter |-> IF clauses # <<>> THEN JoinWith(clauses, "and")
                              ELSE plan_data.extra_filter,
             post_filter |-> PlannerPostFilter(q, s.time_window_days),
             include_total_count |-> (pools.all_ids # {}) \/ bucket,
             order_by |-> IF has_window
                          THEN (IF fd THEN "eta_fd_date desc" ELSE "eta_dp_date desc")
                          ELSE None]]

(***************************************************************************)
(* The search index.  A document is known by its id; DocInfo gives the     *)
(* fields the post-filter reads: arrival dates in hours after the start of *)
(* today (UTC), delays in days.  NoDate / NoDelay: the field is absent     *)
(* from the record and from its metadata.                                  *)
(***************************************************************************)
NoDate == -9999

NoDelay == -9999

HoursPerDay == 24

Docs == {"d1", "d2", "d3", "d4"}

DocInfo(d) ==
    CASE d = "d1" -> [optimal_ata_dp_date |-> 0, optimal_eta_fd_date |-> 167,
                      dp_delayed_dur |-> 0, fd_delayed_dur |-> 7]
      [] d = "d2" -> [optimal_ata_dp_date |-> 168, optimal_eta_fd_date |-> NoDate,
                      dp_delayed_dur |-> 7, fd_delayed_dur |-> NoDelay]
      [] d = "d3" -> [optimal_ata_dp_date |-> NoDate, optimal_eta_fd_date |-> 24,
                      dp_delayed_dur |-> NoDelay, fd_delayed_dur |-> 8]
      [] d = "d4" -> [optimal_ata_dp_date |-> -1, optimal_eta_fd_date |-> 0,
                      dp_delayed_dur |-> 6, fd_delayed_dur |-> 0]

\* What the engine answers to one search call: a page of hits with the total
\* count, a filter-syntax error ("Invalid expression"), or another error
SearchOk(hits, count) == [kind |-> "ok", hits |-> hits, count |-> count]

InvalidFilter == [kind |-> "invalid_filter", hits |-> <<>>, count |-> 0]

SearchError == [kind |-> "error", hits |-> <<>>, count |-> 0]

(***************************************************************************)
(* graph/nodes/retrieve.py                                                 *)
(***************************************************************************)
\* retrieve_node, line 155 and lines 156-162: the filter handed to the tool
PlanFilter(plan) == IF plan.set THEN strip(plan.extra_filter) ELSE <<>>

\* A slip: the plan filter is sent unchecked
ExtraFilterSentUnchecked(plan) == PlanFilter(plan)

\* Lines 155-162: an unsafe plan filter is dropped whole
ExtraFilterSent(plan) ==
    LET extra_filter == PlanFilter(plan)
    IN  IF extra_filter # <<>> /\ ~_is_filter_safe(extra_filter) THEN <<>>
        ELSE extra_filter

\* A date the record carries but fromisoformat rejects, or "NaT"
BadDate == -9998

\* _parse_dt, lines 188-198: a missing, empty, "NaT" or malformed value is None
_parse_dt(val) == IF val \in {NoDate, BadDate} THEN NoDate ELSE val

\* The state's now_utc: absent, unparseable, or a time in hours
NoNow == NoDate

BadNow == BadDate

\* _get_now_utc, lines 200-211: the supplied now_utc when it parses, else the
\* clock
_get_now_utc(now_utc, clock) ==
    IF now_utc \in {NoNow, BadNow} THEN clock ELSE now_utc

\* A slip: the window opens at the present hour
start_of_today_is_now(now_utc) == now_utc

\* Line 214: midnight (UTC) of the current day
start_of_today(now_utc) == now_utc - (now_utc % HoursPerDay)

\* _post_filter_hits, lines 259-271: the date-window rule for one value, the
\* window opening at start
DateWindowKeeps(val, date_window, start) ==
    LET dt_val == _parse_dt(val)
    IN  IF dt_val = NoDate THEN FALSE
        ELSE IF date_window.direction = "next"
        THEN LET window_end == start + date_window.days * HoursPerDay
             IN  dt_val >= start /\ dt_val < window_end
        ELSE TRUE

\* A field value that float() rejects
BadDelay == BadDate

\* Lines 277-280: float(value or 0.0), 0.0 when that raises
DelayNumber(raw_delay) ==
    IF raw_delay \in {NoDelay, BadDelay} THEN 0 ELSE raw_delay

\* A slip: the operator of the rule is not read, every rule is inclusive
DelayKeepsInclusive(raw_delay, delay_rule) ==
    \/ ~delay_rule.set
    \/ DelayNumber(raw_delay) >= delay_rule.days

\* Lines 273-285: the delay rule on one hit
DelayKeeps(raw_delay, delay_rule) ==
    \/ ~delay_rule.set
    \/ IF delay_rule.op = ">" THEN DelayNumber(raw_delay) > delay_rule.days
       ELSE DelayNumber(raw_delay) >= delay_rule.days

\* _post_filter_hits, lines 237-289: one hit against the post-filter
HitPasses(d, post_filter) ==
    LET date_window == post_filter.date_window
        delay_rule == post_filter.delay
        dt_val == IF date_window.field = "optimal_eta_fd_date"
                  THEN DocInfo(d).optimal_eta_fd_date
                  ELSE DocInfo(d).optimal_ata_dp_date
        ok1 == IF ~date_window.set THEN TRUE
               ELSE DateWindowKeeps(dt_val, date_window, 0)
        raw_delay == IF delay_rule.field = "fd_delayed_dur"
                     THEN DocInfo(d).fd_delayed_dur
                     ELSE DocInfo(d).dp_delayed_dur
    IN  ok1 /\ DelayKeeps(raw_delay, delay_rule)

RECURSIVE FilterHits(_, _)
FilterHits(hits, post_filter) ==
    IF hits = <<>> THEN <<>>
    ELSE (IF HitPasses(Head(hits), post_filter) THEN <<Head(hits)>> ELSE <<>>)
         \o FilterHits(Tail(hits), post_filter)

_post_filter_hits(hits, post_filter) ==
    IF ~post_filter.date_window.set /\ ~post_filter.delay.set THEN hits
    ELSE FilterHits(hits, post_filter)

\* retrieve_node returns before any search call
RetrieveSkipsSearch(s, test_mode) ==
    \/ s.intent = "analytics"
    \/ s.consignee_codes = <<>>
    \/ test_mode

\* A slip: a rejected filter is not retried
RetrieveNeverRetries(s, first) == FALSE

\* Lines 332-335: the failed search is retried without the plan filter
RetrieveRetries(s, first) ==
    /\ ExtraFilterSent(s.retrieval_plan) # <<>>
    /\ first.kind = "invalid_filter"

\* Lines 151-154 and 293-302: the query and paging arguments of a search call
SearchPaging(s) ==
    LET plan == s.retrieval_plan
    IN  [query_text |-> IF plan.set THEN plan.query_text
                        ELSE [boost |-> {}, text |-> s.normalized_question],
         top_k |-> IF plan.set THEN plan.top_k ELSE 8,
         order_by |-> IF plan.set THEN plan.order_by ELSE None]

\* One search call of retrieve_node as the log keeps it: the request the tool
\* sends, the query and paging arguments, and the engine's answer
SearchCall(s, extra_filter, is_collection, vector, answer) ==
    SearchRequest(s.consignee_codes, extra_filter, is_collection, vector)
    @@ SearchPaging(s) @@ [answer |-> answer.kind]

\* A slip: the retry after a filter error is issued without the scope
RetrieveCallsRetryUnscoped(s, test_mode, is_collection, vector, first, second) ==
    IF RetrieveSkipsSearch(s, test_mode) THEN <<>>
    ELSE <<SearchCall(s, ExtraFilterSent(s.retrieval_plan), is_collection, vector,
                      first)>>
         \o (IF RetrieveRetries(s, first)
             THEN <<SearchRequest(<<>>, <<>>, is_collection, vector)
                    @@ SearchPaging(s) @@ [answer |-> second.kind]>>
             ELSE <<>>)

\* Lines 291-303 and 340-351: the search calls retrieve_node issues
RetrieveCalls(s, test_mode, is_collection, vector, first, second) ==
    IF RetrieveSkipsSearch(s, test_mode) THEN <<>>
    ELSE <<SearchCall(s, ExtraFilterSent(s.retrieval_plan), is_collection, vector,
                      first)>>
         \o (IF RetrieveRetries(s, first)
             THEN <<SearchCall(s, <<>>, is_collection, vector, second)>>
             ELSE <<>>)

\* Lines 304-318 and 352-362: the state after a search that answered
WithSearchResponse(s, search_response) ==
    LET plan == s.retrieval_plan
        hits == _post_filter_hits(search_response.hits,
                    IF plan.set THEN plan.post_filter ELSE NoPostFilter)
    IN  [s EXCEPT !.hits = hits,
                  !.idx_analytics =
                      [set |-> TRUE,
                       count |-> IF plan.set /\ plan.include_total_count
                                 THEN search_response.count ELSE Len(hits)]]

\* A slip: a search that could not be recovered leaves no notice
RetrieveOnFailureSilent(s) ==
    [s EXCEPT !.errors = Append(@, "Search failed"), !.hits = <<>>]

\* Lines 367-373: the search could not be recovered
RetrieveOnFailure(s) ==
    [s EXCEPT !.errors = Append(@, "Search failed"),
              !.hits = <<>>,
              !.notices = Append(@, "search_issue")]

\* A slip: the fail-closed test of the scope is left out
retrieve_node_without_scope_check(s, test_mode, first, second) ==
    IF s.intent = "analytics"
    THEN [s EXCEPT !.hits = <<>>, !.idx_analytics = [set |-> TRUE, count |-> 0]]
    ELSE IF test_mode
    THEN [s EXCEPT !.hits = <<>>, !.idx_analytics = [set |-> TRUE, count |-> 0]]
    ELSE IF first.kind = "ok" THEN WithSearchResponse(s, first)
    ELSE IF RetrieveRetries(s, first) /\ second.kind = "ok"
    THEN WithSearchResponse(s, second)
    ELSE RetrieveOnFailure(s)

\* retrieve_node, lines 123-379.  first and second are the engine's answers
\* to the first search call and to the retry.
retrieve_node(s, test_mode, first, second) ==
    IF s.intent = "analytics"
    THEN [s EXCEPT !.hits = <<>>, !.idx_analytics = [set |-> TRUE, count |-> 0]]
    ELSE IF s.consignee_codes = <<>>
    THEN [s EXCEPT !.errors = Append(@, "Missing consignee scope; cannot retrieve."),
                   !.hits = <<>>]
    ELSE IF test_mode
    THEN [s EXCEPT !.hits = <<>>, !.idx_analytics = [set |-> TRUE, count |-> 0]]
    ELSE IF first.kind = "ok" THEN WithSearchResponse(s, first)
    ELSE IF RetrieveRetries(s, first) /\ second.kind = "ok"
    THEN WithSearchResponse(s, second)
    ELSE RetrieveOnFailure(s)

(***************************************************************************)
(* graph/nodes/answer.py                                                   *)
(***************************************************************************)
\* Lines 43 and 266: nothing to answer from
NoInformation(s) ==
    s.hits = <<>> /\ ~(s.idx_analytics.set /\ s.idx_analytics.count > 0)

\* answer_node calls the synthesis service
AnswerCallsChat(s, test_mode) == ~test_mode /\ ~NoInformation(s)

\* hits[:n]
Take(xs, n) == SubSeq(xs, 1, IF Len(xs) < n THEN Len(xs) ELSE n)

\* What the synthesis service may answer: the call raises, or it returns a
\* text that is empty, plain, or holds a "|"
SynthesisOutcomes ==
    {[ok |-> FALSE, content |-> ""], [ok |-> TRUE, content |-> ""],
     [ok |-> TRUE, content |-> "plain"], [ok |-> TRUE, content |-> "with_pipe"]}

\* Lines 489-493: the table is appended to a text without "|"
WithTable(response_text) ==
    IF response_text = "plain" THEN "plain_and_table" ELSE "no_summary_and_table"

\* A slip: a failed synthesis is answered with the fallback but not recorded
answer_node_error_unrecorded(s, test_mode, llm) ==
    LET question == s.question_raw
        wants_bucket == s.hits # <<>> /\ QuestionInfo(question).bucket_chart
        s1 == IF wants_bucket
              THEN [s EXCEPT !.table_spec = [set |-> TRUE, title |-> "Arrival Buckets",
                                             rows |-> s.hits]]
              ELSE s
        builds_table == s.hits # <<>> /\ ~s1.table_spec.set
        response_text == IF llm.content = "" THEN "no_summary" ELSE llm.content
    IN  IF test_mode
        THEN [s EXCEPT !.answer_text = IF NoInformation(s) THEN "no_info" ELSE "found"]
        ELSE IF NoInformation(s)
        THEN [s EXCEPT !.answer_text = "no_info"]
        ELSE IF ~llm.ok
        THEN [s1 EXCEPT !.answer_text = "error_fallback"]
        ELSE [s1 EXCEPT !.answer_text =
                            IF builds_table /\ response_text # "with_pipe"
                            THEN WithTable(response_text) ELSE response_text,
                        !.table_spec =
                            IF builds_table
                            THEN [set |-> TRUE, title |-> "Shipment List",
                                  rows |-> s.hits]
                            ELSE @,
                        !.citations = Take(s.hits, 5),
                        !.messages = Append(@, "ai")]

\* answer_node, lines 18-526
answer_node(s, test_mode, llm) ==
    LET question == s.question_raw
        wants_bucket == s.hits # <<>> /\ QuestionInfo(question).bucket_chart
        s1 == IF wants_bucket
              THEN [s EXCEPT !.table_spec = [set |-> TRUE, title |-> "Arrival Buckets",
                                             rows |-> s.hits]]
              ELSE s
        builds_table == s.hits # <<>> /\ ~s1.table_spec.set
        response_text == IF llm.content = "" THEN "no_summary" ELSE llm.content
    IN  IF test_mode
        THEN [s EXCEPT !.answer_text = IF NoInformation(s) THEN "no_info" ELSE "found"]
        ELSE IF NoInformation(s)
        THEN [s EXCEPT !.answer_text = "no_info"]
        ELSE IF ~llm.ok
        THEN [s1 EXCEPT !.answer_text = "error_fallback",
                        !.errors = Append(@, "LLM Error")]
        ELSE [s1 EXCEPT !.answer_text =
                            IF builds_table /\ response_text # "with_pipe"
                            THEN WithTable(response_text) ELSE response_text,
                        !.table_spec =
                            IF builds_table
                            THEN [set |-> TRUE, title |-> "Shipment List",
                                  rows |-> s.hits]
                            ELSE @,
                        !.citations = Take(s.hits, 5),
                        !.messages = Append(@, "ai")]

(***************************************************************************)
(* graph/nodes/judge.py                                                    *)
(***************************************************************************)
\* What the evaluation call may do: raise, answer text without a JSON
\* object, or answer a JSON object with this decision and feedback
JudgeDecisions == {"satisfied", "retry", "unsure", None}

JudgeFeedbacks == {None, "refine"}

JudgeOutcomes ==
    {[kind |-> "raise", decision |-> None, feedback |-> None],
     [kind |-> "bad_json", decision |-> None, feedback |-> None]}
    \cup {[kind |-> "json", decision |-> d, feedback |-> f] :
            d \in JudgeDecisions, f \in JudgeFeedbacks}

\* A slip: the evaluation is called on an empty hit list as well
JudgeCallsChatOnNoHits(s, test_mode) == ~test_mode

\* judge_node calls the evaluation service
JudgeCallsChat(s, test_mode) == ~test_mode /\ s.hits # <<>>

\* Lines 124-134: the verdict read from the reply; a reply without a JSON
\* object counts as satisfied
JudgeResult(llm) ==
    IF llm.kind = "json" THEN [decision |-> llm.decision, feedback |-> llm.feedback]
    ELSE [decision |-> "satisfied", feedback |-> None]

\* A slip: a retry verdict leaves retry_count as it is
JudgeOnVerdictNoCount(s, result) ==
    [s EXCEPT !.is_satisfied = (result.decision = "satisfied"),
              !.reflection_feedback = result.feedback]

\* Lines 138-145: the verdict written to the state
JudgeOnVerdict(s, result) ==
    LET satisfied == result.decision = "satisfied"
    IN  [s EXCEPT !.is_satisfied = satisfied,
                  !.reflection_feedback = result.feedback,
                  !.retry_count = IF satisfied THEN @ ELSE @ + 1]

\* A slip: a failed evaluation counts as a retry verdict
JudgeOnErrorRetries(s) ==
    [s EXCEPT !.is_satisfied = FALSE, !.reflection_feedback = None,
              !.retry_count = @ + 1]

\* Lines 147-150: the evaluation raised
JudgeOnError(s) ==
    [s EXCEPT !.is_satisfied = TRUE, !.reflection_feedback = None]

\* A slip: a skipped evaluation uses up a retry
judge_node_skip_counts(s, test_mode, llm) ==
    IF test_mode \/ s.hits = <<>>
    THEN [s EXCEPT !.is_satisfied = TRUE, !.reflection_feedback = None,
                   !.retry_count = @ + 1]
    ELSE IF llm.kind = "raise" THEN JudgeOnError(s)
    ELSE JudgeOnVerdict(s, JudgeResult(llm))

\* judge_node, lines 18-152
judge_node(s, test_mode, llm) ==
    IF test_mode \/ s.hits = <<>>
    THEN [s EXCEPT !.is_satisfied = TRUE, !.reflection_feedback = None]
    ELSE IF llm.kind = "raise" THEN JudgeOnError(s)
    ELSE JudgeOnVerdict(s, JudgeResult(llm))

(***************************************************************************)
(* graph/nodes/analytics_planner.py                                        *)
(***************************************************************************)
\* How an analytics run may go once the scope is there
AnalyticsOutcomes ==
    {"empty_data", "load_error", "code_gen_error", "no_code", "success",
     "exec_failed"}

\* A slip: the data set is loaded whatever the scope
AnalyticsLoadsDataAlways(s) == TRUE

\* Lines 62-73: load_filtered_data is reached
AnalyticsLoadsData(s) == s.consignee_codes # <<>>

\* Lines 232-236: the generated code is handed to the pandas engine
AnalyticsExecutesCode(s, outcome) ==
    AnalyticsLoadsData(s) /\ outcome \in {"success", "exec_failed"}

\* analytics_planner_node, lines 41-257
analytics_planner_node(s, outcome) ==
    IF ~AnalyticsLoadsData(s)
    THEN [s EXCEPT !.errors = Append(@, "No authorized consignee codes for analytics.")]
    ELSE CASE outcome = "empty_data" ->
                [s EXCEPT !.answer_text = "no_shipment_data", !.is_satisfied = TRUE]
           [] outcome = "load_error" ->
                [s EXCEPT !.errors = Append(@, "Data Load Error")]
           [] outcome = "code_gen_error" ->
                [s EXCEPT !.errors = Append(@, "Code Gen Error")]
           [] outcome = "no_code" ->
                [s EXCEPT !.errors = Append(@, "LLM produced no code.")]
           [] outcome = "success" ->
                [s EXCEPT !.answer_text = "analysis_result", !.is_satisfied = TRUE]
           [] outcome = "exec_failed" ->
                [s EXCEPT !.errors = Append(@, "Analysis Failed"),
                          !.is_satisfied = FALSE]

(***************************************************************************)
(* The graph of a turn and the controller around it                        *)
(***************************************************************************)
\* The conditional edge after the Judge
should_continue(s) ==
    IF s.is_satisfied \/ s.retry_count >= s.max_retries THEN "end" ELSE "retry"

\* A slip: the hits and citations of the checkpoint are left in place
run_graph_keeps_hits(s, question_raw, consignee_codes) ==
    [s EXCEPT !.question_raw = question_raw,
              !.consignee_codes = consignee_codes,
              !.messages = Append(@, "human"),
              !.retrieval_plan = NoPlan,
              !.idx_analytics = NoAnalytics,
              !.answer_text = None,
              !.table_spec = NoTable,
              !.notices = <<>>,
              !.errors = <<>>,
              !.sub_intents = <<>>,
              !.reflection_feedback = None,
              !.is_satisfied = FALSE,
              !.retry_count = 0,
              !.max_retries = max_retries]

\* A slip: the retry counter and the verdict of the checkpoint are left in place
run_graph_keeps_verdict(s, question_raw, consignee_codes) ==
    [s EXCEPT !.question_raw = question_raw,
              !.consignee_codes = consignee_codes,
              !.messages = Append(@, "human"),
              !.retrieval_plan = NoPlan,
              !.hits = <<>>,
              !.idx_analytics = NoAnalytics,
              !.answer_text = None,
              !.citations = <<>>,
              !.table_spec = NoTable,
              !.notices = <<>>,
              !.errors = <<>>,
              !.sub_intents = <<>>,
              !.reflection_feedback = None,
              !.max_retries = max_retries]

\* run_graph: the input of a new turn laid over the conversation's
\* checkpoint.  Per-turn fields are reset, the question is appended to the
\* message history, the rest of the checkpoint stays.
run_graph(s, question_raw, consignee_codes) ==
    [s EXCEPT !.question_raw = question_raw,
              !.consignee_codes = consignee_codes,
              !.messages = Append(@, "human"),
              !.retrieval_plan = NoPlan,
              !.hits = <<>>,
              !.idx_analytics = NoAnalytics,
              !.answer_text = None,
              !.citations = <<>>,
              !.table_spec = NoTable,
              !.notices = <<>>,
              !.errors = <<>>,
              !.sub_intents = <<>>,
              !.reflection_feedback = None,
              !.is_satisfied = FALSE,
              !.retry_count = 0,
              !.max_retries = max_retries]

\* The node that follows route_node's label
NodeAfterRoute(label) ==
    CASE label = "static_info" -> "static_info"
      [] label = "clarification" -> "clarification"
      [] label = "analytics" -> "analytics"
      [] label = "retrieval" -> "plan"
      [] OTHER -> "done"

\* One entry of the turn's trace: the node, whether it called the chat
\* service, and whether that call raised
Ran(node, chat, raised) == [node |-> node, chat |-> chat, raised |-> raised]

NoCall == [fn |-> "none"]

NoRet == [done |-> FALSE]

(***************************************************************************)
(* Inputs of the turn machine                                              *)
(***************************************************************************)
\* The turn machine runs under the default configuration: no unsafe
\* override, a registry that grants user1 the code 9
TurnRegistryEnv ==
    [kind |-> "dict", data |-> [u \in {"user1"} |-> RegList(<< <<"9">> >>)]]

Identities == {"user1"}

\* ChatRequest hands over a non-empty list of trimmed, distinct codes
RequestPayloads ==
    {PList(<< <<"7">> >>), PList(<< <<"7">>, <<"9">> >>)}

TurnQuestions ==
    {"Where is container ABCD1234567?",
     "How many shipments do I have?",
     "Where is it?",
     "1"}

\* What the entity pass finds in a question
ExtractionsFor(q) ==
    IF QuestionInfo(q).ids
    THEN {[NoExtracted EXCEPT !.container_number = <<Val("ABCD1234567")>>]}
    ELSE {NoExtracted}

UnsafeLlmFilter == <<"consignee_code_ids", "/", "any", "(", "t", ":", " ",
                     "t", " ", "eq", " ", Quote, "9", Quote, ")">>

TurnPlanData ==
    {NoPlanData, [NoPlanData EXCEPT !.extra_filter = UnsafeLlmFilter]}

FirstSearchOutcomes ==
    {SearchOk(<<"d1", "d2">>, 7), SearchOk(<<>>, 0), InvalidFilter}

RetrySearchOutcomes == {SearchOk(<<"d3">>, 1), SearchError}

Vectors == {None, "vector"}

TurnRewrites ==
    {LlmFail,
     LlmSays("How many shipments do I have for container ABCD1234567?"),
     LlmSays("Where is container ABCD1234567?")}

TurnClassifierOutcomes ==
    {[kind |-> "raise", label |-> ""]}
    \cup {[kind |-> "json", label |-> l] :
            l \in {"retrieval", "analytics", "greeting", "company_overview"}}

TurnSynthesisOutcomes ==
    {[ok |-> FALSE, content |-> ""], [ok |-> TRUE, content |-> "plain"]}

TurnJudgeOutcomes ==
    {[kind |-> "raise", decision |-> None, feedback |-> None],
     [kind |-> "json", decision |-> "satisfied", feedback |-> None],
     [kind |-> "json", decision |-> "retry", feedback |-> "refine"]}

TurnAnalyticsOutcomes == {"success", "exec_failed"}

(***************************************************************************)
(* The turn machine: one action per handler or node                        *)
(***************************************************************************)
\* The process around a turn: its settings and the server state that the
\* steps of one turn are not followed through
ServerVars == <<singletons, loop, checkpoints>>

EnvVars == <<ALLOW_UNSAFE_SCOPE, registryEnv, testMode, ServerVars>>

\* The module globals, None (0) until first use
SingletonNames == {"_COMPILED_GRAPH", "_EMBED", "_SEARCH", "_CHAT_TOOL"}

NoSingletons == [k \in SingletonNames |-> 0]

NoLoop == [running |-> {}]

NoCheckpoints == <<>>

ServerIdle ==
    /\ singletons = NoSingletons
    /\ loop = NoLoop
    /\ checkpoints = NoCheckpoints

LibVars == <<call, ret>>

\* A slip: the graph is started on the codes of the payload
chat_endpoint_raw_codes(question, user_identity, payload_codes) ==
    /\ pc \in {"idle", "done"}
    /\ turn < MaxTurns
    /\ state.usage_metadata <= MaxUsage
    /\ LET registry == _load_identity_registry(REGISTRY_CACHE, registryEnv)
           allowed_consignee_codes ==
               resolve_allowed_scope(user_identity, payload_codes, registry,
                                     ALLOW_UNSAFE_SCOPE)
       IN  /\ REGISTRY_CACHE' = IF ReachesRegistry(user_identity, payload_codes)
                                THEN [loaded |-> TRUE, reg |-> registry]
                                ELSE REGISTRY_CACHE
           /\ state' = run_graph(state, question, payload_codes.v)
           /\ entryCodes' = allowed_consignee_codes
    /\ turn' = turn + 1
    /\ searchLog' = <<>>
    /\ trace' = <<>>
    /\ pc' = "normalize"
    /\ UNCHANGED <<EnvVars, LibVars>>

\* A slip: every turn runs on a fresh state instead of the checkpoint
chat_endpoint_without_checkpoint(question, user_identity, payload_codes) ==
    /\ pc \in {"idle", "done"}
    /\ turn < MaxTurns
    /\ state.usage_metadata <= MaxUsage
    /\ LET registry == _load_identity_registry(REGISTRY_CACHE, registryEnv)
           allowed_consignee_codes ==
               resolve_allowed_scope(user_identity, payload_codes, registry,
                                     ALLOW_UNSAFE_SCOPE)
       IN  /\ REGISTRY_CACHE' = IF ReachesRegistry(user_identity, payload_codes)
                                THEN [loaded |-> TRUE, reg |-> registry]
                                ELSE REGISTRY_CACHE
           /\ state' = run_graph(EmptyState, question, allowed_consignee_codes)
           /\ entryCodes' = allowed_consignee_codes
    /\ turn' = turn + 1
    /\ searchLog' = <<>>
    /\ trace' = <<>>
    /\ pc' = "normalize"
    /\ UNCHANGED <<EnvVars, LibVars>>

\* api/routes_chat.py chat_endpoint: the scope is resolved from the identity
\* header and the payload codes, and the graph is started on the result
chat_endpoint(question, user_identity, payload_codes) ==
    /\ pc \in {"idle", "done"}
    /\ turn < MaxTurns
    /\ state.usage_metadata <= MaxUsage
    /\ LET registry == _load_identity_registry(REGISTRY_CACHE, registryEnv)
           allowed_consignee_codes ==
               resolve_allowed_scope(user_identity, payload_codes, registry,
                                     ALLOW_UNSAFE_SCOPE)
       IN  /\ REGISTRY_CACHE' = IF ReachesRegistry(user_identity, payload_codes)
                                THEN [loaded |-> TRUE, reg |-> registry]
                                ELSE REGISTRY_CACHE
           /\ state' = run_graph(state, question, allowed_consignee_codes)
           /\ entryCodes' = allowed_consignee_codes
    /\ turn' = turn + 1
    /\ searchLog' = <<>>
    /\ trace' = <<>>
    /\ pc' = "normalize"
    /\ UNCHANGED <<EnvVars, LibVars>>

Request ==
    \E question \in TurnQuestions, user_identity \in Identities,
       payload_codes \in RequestPayloads :
        chat_endpoint(question, user_identity, payload_codes)

Normalize ==
    /\ pc = "normalize"
    /\ \E llm \in TurnRewrites :
           /\ state' = AccumulateUsage(normalize_node(state, testMode, llm),
                                        NormalizeCallsChat(state, testMode)
                                        /\ llm.ok)
           /\ trace' = Append(trace, Ran("normalize",
                                          NormalizeCallsChat(state, testMode),
                                          NormalizeCallsChat(state, testMode)
                                          /\ ~llm.ok))
    /\ pc' = "extract"
    /\ UNCHANGED <<turn, EnvVars, REGISTRY_CACHE, searchLog, entryCodes, LibVars>>

Extract ==
    /\ pc = "extract"
    /\ \E extracted \in ExtractionsFor(state.normalized_question) :
           state' = WithExtractedIds(extractor_node(state), extracted)
    /\ trace' = Append(trace, Ran("extract", FALSE, FALSE))
    /\ pc' = "classify"
    /\ UNCHANGED <<turn, EnvVars, REGISTRY_CACHE, searchLog, entryCodes, LibVars>>

Classify ==
    /\ pc = "classify"
    /\ \E llm \in TurnClassifierOutcomes :
           /\ state' = AccumulateUsage(intent_node(state, testMode, llm),
                                        ~IntentIsDeterministic(state, testMode)
                                        /\ llm.kind # "raise")
           /\ trace' = Append(trace, Ran("classify",
                                          ~IntentIsDeterministic(state, testMode),
                                          ~IntentIsDeterministic(state, testMode)
                                          /\ llm.kind = "raise"))
    /\ pc' = "route"
    /\ UNCHANGED <<turn, EnvVars, REGISTRY_CACHE, searchLog, entryCodes, LibVars>>

Route ==
    /\ pc = "route"
    /\ pc' = NodeAfterRoute(route_node(state))
    /\ trace' = Append(trace, Ran("route", FALSE, FALSE))
    /\ UNCHANGED <<state, turn, EnvVars, REGISTRY_CACHE, searchLog, entryCodes,
                   LibVars>>

Clarify ==
    /\ pc = "clarification"
    /\ state' = clarification_node(state, LlmFail)
    /\ trace' = Append(trace, Ran("clarification", ~ClarifiesTopicShift(state), FALSE))
    /\ pc' = "done"
    /\ UNCHANGED <<turn, EnvVars, REGISTRY_CACHE, searchLog, entryCodes, LibVars>>

StaticInfo ==
    /\ pc = "static_info"
    /\ state' = static_greet_info_node(state, TRUE)
    /\ trace' = Append(trace, Ran("static_info", FALSE, FALSE))
    /\ pc' = "done"
    /\ UNCHANGED <<turn, EnvVars, REGISTRY_CACHE, searchLog, entryCodes, LibVars>>

Analytics ==
    /\ pc = "analytics"
    /\ \E outcome \in TurnAnalyticsOutcomes :
           /\ testMode => outcome \notin {"code_gen_error", "no_code"}
           /\ state' = analytics_planner_node(state, outcome)
    /\ trace' = Append(trace, Ran("analytics",
                                  ~testMode /\ state.consignee_codes # <<>>,
                                  FALSE))
    /\ pc' = "done"
    /\ UNCHANGED <<turn, EnvVars, REGISTRY_CACHE, searchLog, entryCodes, LibVars>>

Plan ==
    /\ pc = "plan"
    /\ \E plan_data \in TurnPlanData :
           /\ testMode => plan_data = NoPlanData
           /\ state' = AccumulateUsage(planner_node(state, plan_data),
                                        PlannerCallsChat(testMode)
                                        /\ plan_data # NoPlanData)
    /\ trace' = Append(trace, Ran("plan", PlannerCallsChat(testMode), FALSE))
    /\ pc' = "retrieve"
    /\ UNCHANGED <<turn, EnvVars, REGISTRY_CACHE, searchLog, entryCodes, LibVars>>

Retrieve ==
    /\ pc = "retrieve"
    /\ \E first \in FirstSearchOutcomes, second \in RetrySearchOutcomes,
          vector \in Vectors :
           /\ state' = retrieve_node(state, testMode, first, second)
           /\ searchLog' = RetrieveCalls(state, testMode, TRUE, vector, first, second)
    /\ trace' = Append(trace, Ran("retrieve", FALSE, FALSE))
    /\ pc' = "answer"
    /\ UNCHANGED <<turn, EnvVars, REGISTRY_CACHE, entryCodes, LibVars>>

Answer ==
    /\ pc = "answer"
    /\ \E llm \in TurnSynthesisOutcomes :
           /\ state' = AccumulateUsage(answer_node(state, testMode, llm),
                                        AnswerCallsChat(state, testMode) /\ llm.ok)
           /\ trace' = Append(trace, Ran("answer", AnswerCallsChat(state, testMode),
                                          AnswerCallsChat(state, testMode) /\ ~llm.ok))
    /\ searchLog' = <<>>
    /\ pc' = "judge"
    /\ UNCHANGED <<turn, EnvVars, REGISTRY_CACHE, entryCodes, LibVars>>

\* A slip: a retry goes back to the Retriever with the old plan
JudgeRetriesAtRetriever ==
    /\ pc = "judge"
    /\ \E llm \in TurnJudgeOutcomes :
           /\ state' = AccumulateUsage(judge_node(state, testMode, llm),
                                        JudgeCallsChat(state, testMode)
                                        /\ llm.kind # "raise")
           /\ pc' = IF should_continue(state') = "retry" THEN "retrieve" ELSE "done"
           /\ trace' = Append(trace, Ran("judge", JudgeCallsChat(state, testMode),
                                          JudgeCallsChat(state, testMode)
                                          /\ llm.kind = "raise"))
    /\ UNCHANGED <<turn, EnvVars, REGISTRY_CACHE, searchLog, entryCodes, LibVars>>

Judge ==
    /\ pc = "judge"
    /\ \E llm \in TurnJudgeOutcomes :
           /\ state' = AccumulateUsage(judge_node(state, testMode, llm),
                                        JudgeCallsChat(state, testMode)
                                        /\ llm.kind # "raise")
           /\ pc' = IF should_continue(state') = "retry" THEN "plan" ELSE "done"
           /\ trace' = Append(trace, Ran("judge", JudgeCallsChat(state, testMode),
                                          JudgeCallsChat(state, testMode)
                                          /\ llm.kind = "raise"))
    /\ UNCHANGED <<turn, EnvVars, REGISTRY_CACHE, searchLog, entryCodes, LibVars>>

Init ==
    /\ pc = "idle"
    /\ state = EmptyState
    /\ turn = 0
    /\ ALLOW_UNSAFE_SCOPE = FALSE
    /\ registryEnv = TurnRegistryEnv
    /\ REGISTRY_CACHE = NotLoaded
    /\ testMode \in BOOLEAN
    /\ searchLog = <<>>
    /\ trace = <<>>
    /\ entryCodes = <<>>
    /\ call = NoCall
    /\ ret = NoRet
    /\ ServerIdle

Next ==
    \/ Request
    \/ Normalize
    \/ Extract
    \/ Classify
    \/ Route
    \/ Clarify
    \/ StaticInfo
    \/ Analytics
    \/ Plan
    \/ Retrieve
    \/ Answer
    \/ Judge

Spec == Init /\ [][Next]_vars

TypeOK == pc \in {"idle", "normalize", "extract", "classify", "route",
                  "clarification", "static_info", "analytics", "plan",
                  "retrieve", "answer", "judge", "done"}

(***************************************************************************)
(* Properties of the turn machine                                          *)
(***************************************************************************)
NodesRun == {trace[i].node : i \in DOMAIN trace}

PlannerRuns == Cardinality({i \in DOMAIN trace : trace[i].node = "plan"})

IsPrefix(xs, ys) == Len(xs) <= Len(ys) /\ SubSeq(ys, 1, Len(xs)) = xs

\* C1: every execution of retrieve_node on the retrieval path with an empty
\* authorized scope ends with no hits and with one more error recorded, and
\* issues no search call, whatever the plan, the filter or the question.
C1_EmptyScopeFailsClosed ==
    [][(pc = "retrieve" /\ state.consignee_codes = <<>>)
       => /\ state'.hits = <<>>
          /\ Len(state'.errors) = Len(state.errors) + 1
          /\ IsPrefix(state.errors, state'.errors)
          /\ searchLog' = <<>>]_vars

C1_Witness ==
    /\ pc = "answer"
    /\ ~testMode
    /\ entryCodes = <<>>
    /\ state.retrieval_plan.set
    /\ state.retrieval_plan.extra_filter # <<>>
    /\ state.hits = <<>>
    /\ state.errors = <<"Missing consignee scope; cannot retrieve.">>
    /\ searchLog = <<>>

C6_JudgeFailureSatisfies ==
    [][(pc = "judge" /\ state.hits # <<>> /\ trace' # trace /\ Last(trace').raised)
       => /\ state'.is_satisfied
          /\ state'.reflection_feedback = None
          /\ state'.retry_count = state.retry_count
          /\ state'.answer_text = state.answer_text
          /\ state'.errors = state.errors
          /\ pc' = "done"]_vars

C6_Witness ==
    /\ pc = "done"
    /\ trace # <<>>
    /\ Last(trace).node = "judge"
    /\ Last(trace).raised
    /\ state.hits # <<>>
    /\ state.retry_count = 1
    /\ state.is_satisfied
    /\ state.reflection_feedback = None
    /\ state.answer_text = "plain_and_table"

\* C7: from the entry of the graph to the end of the turn no node changes
\* state.consignee_codes, and every search call of the turn carries exactly
\* the list the graph was entered with.
C7_ScopeFrame ==
    [][/\ pc \notin {"idle", "done"}
          => (state'.consignee_codes = state.consignee_codes
              /\ state'.consignee_codes = entryCodes
              /\ entryCodes' = entryCodes)
       /\ \A i \in DOMAIN searchLog' : searchLog'[i].codes = entryCodes'
      ]_vars

\* A retried attempt, after the Judge ran, whose retrieval issued two calls
C7_Witness ==
    /\ pc = "answer"
    /\ "judge" \in NodesRun
    /\ entryCodes = << <<"9">> >>
    /\ Len(searchLog) = 2
    /\ state.consignee_codes = entryCodes

\* C10 as claimed: whenever the Normalizer has raised a topic-shift candidate
\* the router sends the turn to the clarification node, whatever the intent
\* label, and the turn ends there with the two-choice prompt.
C10_ClarifiesWhateverIntent ==
    [][/\ (pc = "route" /\ state.topic_shift_candidate.set) => pc' = "clarification"
       /\ (pc = "clarification" /\ state.topic_shift_candidate.set)
              => /\ state'.answer_text = "two_choices"
                 /\ state'.is_satisfied
                 /\ state'.pending_topic_shift.set
                 /\ pc' = "done"
      ]_vars

\* C10, amended: a topic-shift candidate sends the turn to the clarification
\* node when the intent is analytics; the turn then ends with the two-choice
\* prompt, is_satisfied true and the pending choice stored, and neither the
\* retrieval path nor the analytics path runs.  With any other intent the
\* router follows the intent and the candidate is not acted on.
C10_ClarifiesAnalyticsOnly ==
    [][/\ (pc = "route" /\ state.topic_shift_candidate.set)
              => pc' = (IF state.intent = "analytics" THEN "clarification"
                        ELSE IF state.intent = "company_overview" THEN "static_info"
                        ELSE IF state.intent = "retrieval" THEN "plan"
                        ELSE "done")
       /\ (pc = "clarification" /\ state.topic_shift_candidate.set)
              => /\ state'.answer_text = "two_choices"
                 /\ state'.is_satisfied
                 /\ state'.pending_topic_shift =
                        [set |-> TRUE, raw |-> state.topic_shift_candidate.raw,
                         normalized |-> state.topic_shift_candidate.normalized]
                 /\ ~state'.topic_shift_candidate.set
                 /\ pc' = "done"
                 /\ NodesRun' \cap {"plan", "retrieve", "answer", "judge",
                                    "analytics"} = {}
      ]_vars

C10_Witness ==
    /\ pc = "done"
    /\ trace # <<>>
    /\ Last(trace).node = "clarification"
    /\ state.intent = "clarification"
    /\ state.answer_text = "two_choices"
    /\ state.pending_topic_shift.set
    /\ state.pending_topic_shift.raw = "How many shipments do I have?"
    /\ state.is_satisfied

(***************************************************************************)
(* Direct calls of resolve_allowed_scope, as tests/test_rls.py makes them  *)
(***************************************************************************)
SeqsUpTo(S, n) == UNION {[1..k -> S] : k \in 0..n}

\* The strings a list of codes is built from
CodeStrings == {<<>>, <<"7">>, <<"9">>, <<" ">>, <<"7", " ">>, <<"7", ",", "9">>}

CallerIdentities == {None, "", "user1"}

CallerPayloads ==
    {PNone, POther}
    \cup {PStr(x) : x \in StrUpTo(MaxStrLen)}
    \cup {PList(l) : l \in SeqsUpTo(CodeStrings, MaxListLen)}

InitScope ==
    /\ pc = "lib"
    /\ state = EmptyState
    /\ turn = 0
    /\ ALLOW_UNSAFE_SCOPE \in BOOLEAN
    /\ registryEnv \in RegistryEnvs
    /\ REGISTRY_CACHE = NotLoaded
    /\ testMode = FALSE
    /\ searchLog = <<>>
    /\ trace = <<>>
    /\ entryCodes = <<>>
    /\ call \in {[fn |-> "resolve_allowed_scope", user_identity |-> id,
                  payload_codes |-> p] :
                    id \in CallerIdentities, p \in CallerPayloads}
    /\ ret = NoRet
    /\ ServerIdle

ResolveScope ==
    /\ call.fn = "resolve_allowed_scope"
    /\ ~ret.done
    /\ LET registry == _load_identity_registry(REGISTRY_CACHE, registryEnv)
       IN  /\ ret' = [done |-> TRUE,
                      value |-> resolve_allowed_scope(call.user_identity,
                                    call.payload_codes, registry, ALLOW_UNSAFE_SCOPE)]
           /\ REGISTRY_CACHE' =
                  IF ReachesRegistry(call.user_identity, call.payload_codes)
                  THEN [loaded |-> TRUE, reg |-> registry]
                  ELSE REGISTRY_CACHE
    /\ UNCHANGED <<pc, state, turn, EnvVars, searchLog, trace, entryCodes, call>>

NextScope == ResolveScope

SpecScope == InitScope /\ [][NextScope]_vars

\* The requested codes as the resolver reads them: a string is cut at its
\* commas, a list is taken element by element; every piece is trimmed,
\* blank pieces are dropped, a code counts at its first occurrence only
RECURSIVE FirstOccurrences(_)
FirstOccurrences(xs) ==
    IF xs = <<>> THEN <<>>
    ELSE LET front == FirstOccurrences(Front(xs))
         IN  IF Last(xs) \in Elems(front) THEN front ELSE Append(front, Last(xs))

RECURSIVE Trimmed(_)
Trimmed(xs) ==
    IF xs = <<>> THEN <<>>
    ELSE (IF strip(Head(xs)) = <<>> THEN <<>> ELSE <<strip(Head(xs))>>)
         \o Trimmed(Tail(xs))

RECURSIVE SplitEach(_)
SplitEach(xs) ==
    IF xs = <<>> THEN <<>> ELSE split(Head(xs)) \o SplitEach(Tail(xs))

RequestedCodes(p) ==
    IF p.t = "str" THEN FirstOccurrences(Trimmed(split(p.v)))
    ELSE IF p.t = "list" THEN FirstOccurrences(Trimmed(p.v))
    ELSE <<>>

\* The same with comma-packed elements of a list cut at their commas as well
RequestedCodesSplit(p) ==
    IF p.t = "str" THEN FirstOccurrences(Trimmed(split(p.v)))
    ELSE IF p.t = "list" THEN FirstOccurrences(Trimmed(SplitEach(p.v)))
    ELSE <<>>

\* The registry the call sees, and the codes it grants the caller
RegistrySeen == LoadRegistryFromEnv(registryEnv)

RegistryLoaded == DOMAIN RegistrySeen # {}

AllowedCodes(id) ==
    IF id \in DOMAIN RegistrySeen /\ RegistrySeen[id] # <<>> THEN RegistrySeen[id]
    ELSE IF "*" \in DOMAIN RegistrySeen THEN RegistrySeen["*"]
    ELSE <<>>

IdentityPresent == call.user_identity \notin {None, ""}

\* xs restricted to the members of S, order kept
Restrict(xs, S) == Filter(xs, S)

\* C2 as claimed: with an absent identity and a non-empty list of requested
\* codes the resolver returns the empty list unless the unsafe override is
\* set, and only under the override are the requested codes passed through.
C2_AbsentIdentityDenied ==
    (/\ ret.done
     /\ ~IdentityPresent
     /\ call.payload_codes.t = "list"
     /\ call.payload_codes.v # <<>>)
    => ret.value = (IF ALLOW_UNSAFE_SCOPE THEN RequestedCodes(call.payload_codes)
                    ELSE <<>>)

\* C8: with a present identity and a registry that is absent, unreadable,
\* not a JSON object or empty, the resolver returns the empty list unless the
\* unsafe override is set, and the normalized requested codes under it.
C8_NoRegistryDenied ==
    (ret.done /\ IdentityPresent /\ ~RegistryLoaded)
    => ret.value = (IF ALLOW_UNSAFE_SCOPE THEN RequestedCodes(call.payload_codes)
                    ELSE <<>>)

C8_Witness ==
    /\ ret.done
    /\ IdentityPresent
    /\ registryEnv.kind = "unreadable"
    /\ ~ALLOW_UNSAFE_SCOPE
    /\ call.payload_codes = PList(<< <<"7">>, <<"9">> >>)
    /\ ret.value = <<>>

ContainerClause == <<"container_number", " ", "eq", " ", Quote, "ABCD1234567", Quote>>

SearchExtraFilters == {<<>>, ContainerClause, <<"false">>}

InitSearch ==
    /\ pc = "lib"
    /\ state = EmptyState
    /\ turn = 0
    /\ ALLOW_UNSAFE_SCOPE = FALSE
    /\ registryEnv = TurnRegistryEnv
    /\ REGISTRY_CACHE = NotLoaded
    /\ testMode = FALSE
    /\ searchLog = <<>>
    /\ trace = <<>>
    /\ entryCodes = <<>>
    /\ call \in {[fn |-> "search", consignee_codes |-> codes, extra_filter |-> f,
                  is_collection |-> c, vector |-> v] :
                    codes \in SeqsUpTo(CodeStrings, MaxListLen),
                    f \in SearchExtraFilters, c \in BOOLEAN, v \in Vectors}
    /\ ret = NoRet
    /\ ServerIdle

Search ==
    /\ call.fn = "search"
    /\ ~ret.done
    /\ searchLog' = <<SearchRequest(call.consignee_codes, call.extra_filter,
                                    call.is_collection, call.vector)>>
    /\ ret' = [done |-> TRUE]
    /\ UNCHANGED <<pc, state, turn, EnvVars, REGISTRY_CACHE, trace, entryCodes, call>>

NextSearch == Search

SpecSearch == InitSearch /\ [][NextSearch]_vars

OnlyBlankCodes(codes) == \A i \in DOMAIN codes : \A k \in DOMAIN codes[i] : codes[i][k] = " "

\* C3: the filter of every search call is the authorization predicate alone
\* when no plan filter is given and "(authorization predicate) and (plan
\* filter)" otherwise; the authorization predicate is the same whatever the
\* plan filter and the query vector, and it is "false" when the code list is
\* empty or holds only blank codes.
C3_AuthorizationConjoined ==
    (ret.done /\ call.fn = "search")
    => LET sent == searchLog[1]
           auth == sent.base
       IN  /\ sent.filter =
                  IF call.extra_filter = <<>> THEN auth
                  ELSE <<"(">> \o auth \o <<")", " ", "and", " ", "(">>
                       \o call.extra_filter \o <<")">>
           /\ \A f \in SearchExtraFilters, v \in Vectors :
                  SearchRequest(call.consignee_codes, f, call.is_collection, v).base
                      = auth
           /\ OnlyBlankCodes(call.consignee_codes) => auth = <<"false">>
           /\ ~OnlyBlankCodes(call.consignee_codes) => auth # <<"false">>

C3_Witness ==
    /\ ret.done
    /\ call.fn = "search"
    /\ call.consignee_codes = << <<" ">>, <<>> >>
    /\ call.extra_filter = ContainerClause
    /\ searchLog[1].filter =
           <<"(", "false", ")", " ", "and", " ", "(">> \o ContainerClause \o <<")">>

(***************************************************************************)
(* The Planner and the Retriever on every combination of extracted         *)
(* entities and on every model-suggested filter up to a length             *)
(***************************************************************************)
MaxFilterLen == 4

FilterVocabulary == {"consignee_code_ids", "shipment_status", "id", Quote}

LlmFilters == SeqsUpTo(FilterVocabulary, MaxFilterLen)

IdNumber == Val("5302997239")

IdContainer == Val("ABCD1234567")

QuotedName == <<"O", Quote, "id">>

ExtractedCombinations ==
    {[container_number |-> c, po_numbers |-> po, booking_numbers |-> b,
      obl_nos |-> o, status_keywords |-> st, location |-> loc] :
        c \in {<<>>, <<IdContainer>>},
        po \in {<<>>, <<IdNumber>>, <<IdContainer, IdNumber>>},
        b \in {<<>>, <<IdNumber>>},
        o \in {<<>>, <<QuotedName>>},
        st \in {<<>>, <<"hot", "delivered">>},
        loc \in {<<>>, <<QuotedName, <<"Los", " ", "Angeles">> >>}}

PlannerQuestions ==
    {"How many shipments do I have?",
     "Shipments to final destination delayed 5 days"}

PlannerInputs ==
    {[question |-> q, extracted |-> e, plan_data |-> NoPlanData] :
        q \in PlannerQuestions, e \in ExtractedCombinations}
    \cup
    {[question |-> q, extracted |-> e,
      plan_data |-> [NoPlanData EXCEPT !.extra_filter = f]] :
        q \in {"How many shipments do I have?"},
        e \in {NoExtracted, [NoExtracted EXCEPT !.status_keywords = <<"hot">>],
               [NoExtracted EXCEPT !.container_number = <<IdContainer>>]},
        f \in LlmFilters}

InitPlan ==
    /\ pc = "plan"
    /\ \E in \in PlannerInputs :
           /\ state = [EmptyState EXCEPT
                           !.question_raw = in.question,
                           !.normalized_question = QuestionInfo(in.question).lower,
                           !.consignee_codes = << <<"9">> >>,
                           !.messages = <<"human">>,
                           !.intent = "retrieval",
                           !.sub_intents = <<"retrieval">>,
                           !.extracted_ids = in.extracted]
           /\ call = [fn |-> "planner_node", plan_data |-> in.plan_data]
    /\ turn = 1
    /\ ALLOW_UNSAFE_SCOPE = FALSE
    /\ registryEnv = TurnRegistryEnv
    /\ REGISTRY_CACHE = NotLoaded
    /\ testMode = FALSE
    /\ searchLog = <<>>
    /\ trace = <<>>
    /\ entryCodes = << <<"9">> >>
    /\ ret = NoRet
    /\ ServerIdle

PlanSuggested ==
    /\ pc = "plan"
    /\ call.fn = "planner_node"
    /\ state' = planner_node(state, call.plan_data)
    /\ trace' = Append(trace, Ran("plan", PlannerCallsChat(testMode), FALSE))
    /\ pc' = "retrieve"
    /\ UNCHANGED <<turn, EnvVars, REGISTRY_CACHE, searchLog, entryCodes, LibVars>>

NextPlan ==
    \/ PlanSuggested
    \/ Retrieve

SpecPlan == InitPlan /\ [][NextPlan]_vars

QuotesIn(f, from, to) == Cardinality({k \in from..to : f[k] = Quote})

\* Position i of filter f lies inside a quoted literal: quotes pair up from
\* the left, and i sits between the two quotes of a pair
InLiteral(f, i) ==
    /\ QuotesIn(f, 1, i - 1) % 2 = 1
    /\ QuotesIn(f, i + 1, Len(f)) >= 1
    /\ f[i] # Quote

AllowedOutsideLiterals ==
    _FILTER_FIELDS \cup keywords \cup {"t", "p", "b", "o", "x"}

OnlyAllowedTokens(f) ==
    \A i \in DOMAIN f :
        (IsIdentifier(f[i]) /\ ~InLiteral(f, i)) => f[i] \in AllowedOutsideLiterals

\* C4: whatever entities were extracted and whatever filter the model
\* suggested, a plan filter handed to the search engine holds, outside quoted
\* literals, only allow-listed field names, the fixed keywords and one-letter
\* lambda variables; a plan filter with any other token is not sent, the
\* search then carries the authorization predicate alone.
C4_OnlyAllowListedFields ==
    /\ \A i \in DOMAIN searchLog : OnlyAllowedTokens(searchLog[i].extra)
    /\ (pc = "answer" /\ searchLog # <<>>)
           => searchLog[1].extra =
                  IF OnlyAllowedTokens(state.retrieval_plan.extra_filter)
                  THEN state.retrieval_plan.extra_filter ELSE <<>>

C4_Witness ==
    /\ pc = "answer"
    /\ call.fn = "planner_node"
    /\ searchLog # <<>>
    /\ state.retrieval_plan.extra_filter =
           <<"(", Quote, "id", Quote, "consignee_code_ids", ")">>
    /\ searchLog[1].extra = <<>>
    /\ searchLog[1].filter = searchLog[1].base

(***************************************************************************)
(* Direct calls of normalize_node on a checkpointed conversation: every    *)
(* user text of the model, with and without a pending clarification        *)
(***************************************************************************)
\* normalizer._CONTROL_REPLIES, lines 41-56
_CONTROL_REPLIES ==
    {"1", "2", "a", "b", "use previous", "use previous context", "use context",
     "previous", "same", "new", "new topic", "ignore", "ignore previous",
     "ignore previous context"}

\* The pending choice clarification_node stored on the turn before
StoredPending ==
    [set |-> TRUE, raw |-> "How many shipments do I have?",
     normalized |-> "how many shipments do i have for container abcd1234567?"]

\* A conversation at the entry of normalize_node: the new question is the last
\* message; a pending choice comes with the turn that asked for it
NormalizeInputs ==
    {[question |-> q, messages |-> <<"human">>, pending |-> NoPending] :
        q \in UserQuestions \cup _CONTROL_REPLIES}
    \cup
    {[question |-> q, messages |-> <<"human", "ai", "human">>, pending |-> p] :
        q \in UserQuestions \cup _CONTROL_REPLIES,
        p \in {NoPending, StoredPending}}

InitNormalize ==
    /\ pc = "lib"
    /\ \E in \in NormalizeInputs :
           state = [EmptyState EXCEPT !.question_raw = in.question,
                                      !.messages = in.messages,
                                      !.pending_topic_shift = in.pending]
    /\ call \in {[fn |-> "normalize_node", llm |-> l] :
                    l \in {LlmFail} \cup {LlmSays(t) : t \in LlmRewrites}}
    /\ turn = 1
    /\ ALLOW_UNSAFE_SCOPE = FALSE
    /\ registryEnv = TurnRegistryEnv
    /\ REGISTRY_CACHE = NotLoaded
    /\ testMode \in BOOLEAN
    /\ searchLog = <<>>
    /\ trace = <<>>
    /\ entryCodes = <<>>
    /\ ret = NoRet
    /\ ServerIdle

NormalizeReply ==
    /\ call.fn = "normalize_node"
    /\ ~ret.done
    /\ state' = normalize_node(state, testMode, call.llm)
    /\ ret' = [done |-> TRUE, before |-> state,
               chat |-> NormalizeCallsChat(state, testMode)]
    /\ UNCHANGED <<pc, turn, EnvVars, REGISTRY_CACHE, searchLog, trace,
                   entryCodes, call>>

NextNormalize == NormalizeReply

SpecNormalize == InitNormalize /\ [][NextNormalize]_vars

Normalized == ret.done /\ call.fn = "normalize_node"

\* The texts are the same once case is ignored
SameText(a, b) == QuestionInfo(a).lower = QuestionInfo(b).lower

\* Text b holds a time window or an identifier that text a does not hold
AddsContext(a, b) ==
    LET la == QuestionInfo(a).lower
        lb == QuestionInfo(b).lower
    IN  \/ QuestionInfo(lb).time_window /\ ~QuestionInfo(la).time_window
        \/ QuestionInfo(lb).ids /\ ~QuestionInfo(la).ids

C12_ControlReplyResolves ==
    (/\ Normalized
     /\ ret.before.pending_topic_shift.set
     /\ ret.before.question_raw \in _CONTROL_REPLIES)
    => /\ state.question_raw \in {ret.before.pending_topic_shift.normalized,
                                  ret.before.pending_topic_shift.raw}
       /\ state.pending_topic_shift = NoPending
       /\ state.topic_shift_candidate = NoCandidate
       /\ ~ret.chat

(***************************************************************************)
(* The turn boundary                                                       *)
(***************************************************************************)
\* The per-turn fields of a state
PerTurnFields(s) ==
    [retrieval_plan |-> s.retrieval_plan, hits |-> s.hits,
     idx_analytics |-> s.idx_analytics, answer_text |-> s.answer_text,
     citations |-> s.citations, table_spec |-> s.table_spec,
     notices |-> s.notices, errors |-> s.errors, sub_intents |-> s.sub_intents,
     reflection_feedback |-> s.reflection_feedback]

\* The turn has been started and no node has run yet
TurnStarts == pc = "normalize"

NextTurnStarts == pc = "done" /\ pc' = "normalize"

JudgeRuns == pc = "judge"

JudgeRan == trace # <<>> /\ Last(trace).node = "judge"

\* C15: within a turn retry_count never decreases, and an execution of
\* judge_node adds exactly 1 to it when the evaluation answered with a verdict
\* other than satisfied (retry), and leaves it as it is when the verdict is
\* satisfied, when the evaluation is skipped (test mode, no hits), and when
\* the evaluation call raises.
C15_RetryCountSteps ==
    [][/\ ~NextTurnStarts => state'.retry_count >= state.retry_count
       /\ JudgeRuns =>
            LET ran == Last(trace')
                verdict_retry == ran.chat /\ ~ran.raised /\ ~state'.is_satisfied
            IN  /\ verdict_retry <=> state'.reflection_feedback = "refine"
                /\ state'.retry_count =
                       IF verdict_retry THEN state.retry_count + 1
                       ELSE state.retry_count]_vars

\* A turn in which a first evaluation asked for a retry and the second one
\* raised: the counter stands at 1
C15_Witness ==
    /\ JudgeRan
    /\ Last(trace).raised
    /\ state.retry_count = 1
    /\ state.is_satisfied

\* C16: an execution of judge_node on an empty hit list sets is_satisfied,
\* clears the feedback, makes no evaluation call and changes nothing else,
\* retry_count included.
C16_NoHitsSkipsJudge ==
    [][(JudgeRuns /\ state.hits = <<>>) =>
            /\ state' = [state EXCEPT !.is_satisfied = TRUE,
                                      !.reflection_feedback = None]
            /\ ~Last(trace').chat]_vars

\* Outside test mode, a retried attempt came back without hits: the Judge
\* cleared the feedback of the first attempt and kept the counter
C16_Witness ==
    /\ JudgeRan
    /\ ~testMode
    /\ state.hits = <<>>
    /\ state.retry_count = 1
    /\ state.is_satisfied
    /\ state.reflection_feedback = None

\* The node that ran at place i of the turn's trace
NodeAt(i) == trace[i].node

RetrieveRuns == pc = "retrieve"

RetrieveRan == trace # <<>> /\ Last(trace).node = "retrieve"

\* C18: when the engine rejects the plan filter of the first search call,
\* retrieve_node issues exactly one more call, which differs from the first in
\* nothing but the dropped plan filter (same authorized scope, vector, query
\* and paging); it never issues more than two calls, a second call only after
\* a rejected filter, every call scoped by the state's consignee_codes; and
\* the turn goes on to answer_node, with no error recorded when the retry
\* answers.
C18_FilterRejectedRetriesOnce ==
    [][RetrieveRuns =>
        LET calls == searchLog'
            rejected == calls # <<>> /\ calls[1].answer = "invalid_filter"
                        /\ calls[1].extra # <<>>
        IN  /\ Len(calls) <= 2
            /\ \A i \in DOMAIN calls : calls[i].codes = state.consignee_codes
            /\ Len(calls) = 2 <=> rejected
            /\ rejected =>
                   /\ calls[2] = [calls[1] EXCEPT !.extra = <<>>,
                                                  !.filter = calls[1].base,
                                                  !.answer = calls[2].answer]
                   /\ calls[2].answer = "ok" =>
                          /\ state'.errors = state.errors
                          /\ state'.notices = state.notices
            /\ pc' = "answer"]_vars

\* The engine rejected the plan filter, the retry without it answered, and the
\* turn holds the retry's hit with no error
C18_Witness ==
    /\ RetrieveRan
    /\ Len(searchLog) = 2
    /\ searchLog[1].answer = "invalid_filter"
    /\ searchLog[1].extra # <<>>
    /\ searchLog[2].answer = "ok"
    /\ state.hits = <<"d3">>
    /\ state.errors = <<>>

\* C19: retrieve_node issues its search whether or not the embedding call
\* gave a vector; a search without a vector carries the state's authorized
\* scope and the plan filter a search with a vector would carry, and when the
\* engine answers it no error and no notice is recorded.
C19_EmbeddingFailureTextOnly ==
    [][RetrieveRuns =>
        LET calls == searchLog'
        IN  /\ ~RetrieveSkipsSearch(state, testMode) => calls # <<>>
            /\ (calls # <<>> /\ calls[1].vector = None) =>
                   /\ calls[1].codes = state.consignee_codes
                   /\ calls[1].extra = ExtraFilterSent(state.retrieval_plan)
                   /\ calls[1].filter =
                          FinalFilter(calls[1].base,
                                      ExtraFilterSent(state.retrieval_plan))
                   /\ calls[1].answer = "ok" =>
                          /\ state'.errors = state.errors
                          /\ state'.notices = state.notices]_vars

\* A search without a vector, with a plan filter, answered with hits
C19_Witness ==
    /\ RetrieveRan
    /\ Len(searchLog) = 1
    /\ searchLog[1].vector = None
    /\ searchLog[1].extra # <<>>
    /\ searchLog[1].answer = "ok"
    /\ state.hits # <<>>
    /\ state.errors = <<>>

(***************************************************************************)
(* The Answerer's failure path                                             *)
(***************************************************************************)
AnswerRuns == pc = "answer"

\* C20: when the synthesis call of answer_node raises, which it can only do
\* with hits or aggregates to answer from, the node sets answer_text to the
\* fixed fallback message, appends the failure to errors, keeps the hits, and
\* hands the turn on to the Judge.
C20_SynthesisFailureFallsBack ==
    [][(AnswerRuns /\ Last(trace').raised) =>
            /\ ~NoInformation(state)
            /\ state'.answer_text = "error_fallback"
            /\ state'.errors = Append(state.errors, "LLM Error")
            /\ state'.hits = state.hits
            /\ state'.citations = state.citations
            /\ pc' = "judge"]_vars

\* A turn has ended whose synthesis failed on retrieved hits: the fallback
\* message is the answer and the failure is among the errors
C20_Witness ==
    /\ pc = "done"
    /\ state.hits # <<>>
    /\ state.answer_text = "error_fallback"
    /\ state.errors = <<"LLM Error">>
    /\ \E i \in DOMAIN trace : trace[i].node = "answer" /\ trace[i].raised

(***************************************************************************)
(* retrieve_node called directly, with every answer of the engine          *)
(***************************************************************************)
\* What the engine may answer to the first search call and to the retry
AllFirstSearchOutcomes == FirstSearchOutcomes \cup {SearchError}

AllRetrySearchOutcomes == RetrySearchOutcomes \cup {InvalidFilter}

\* States at the entry of retrieve_node: the Planner has run, with or without
\* a plan filter, on a state with or without a scope and with or without an
\* error of an earlier attempt
RetrieveEntryStates ==
    {planner_node([EmptyState EXCEPT
                       !.question_raw = "How many shipments do I have?",
                       !.normalized_question = "how many shipments do i have?",
                       !.consignee_codes = codes,
                       !.messages = <<"human">>,
                       !.intent = intent,
                       !.sub_intents = <<intent>>,
                       !.extracted_ids = e,
                       !.errors = errs],
                  NoPlanData) :
        codes \in {<<>>, << <<"9">> >>},
        intent \in {"retrieval", "analytics"},
        e \in {NoExtracted, [NoExtracted EXCEPT !.status_keywords = <<"hot">>]},
        errs \in {<<>>, <<"LLM Error">>}}

InitRetrieve ==
    /\ pc = "lib"
    /\ state \in RetrieveEntryStates
    /\ call \in {[fn |-> "retrieve_node", first |-> f, second |-> r, vector |-> v] :
                    f \in AllFirstSearchOutcomes, r \in AllRetrySearchOutcomes,
                    v \in Vectors}
    /\ turn = 1
    /\ ALLOW_UNSAFE_SCOPE = FALSE
    /\ registryEnv = TurnRegistryEnv
    /\ REGISTRY_CACHE = NotLoaded
    /\ testMode \in BOOLEAN
    /\ searchLog = <<>>
    /\ trace = <<>>
    /\ entryCodes = state.consignee_codes
    /\ ret = NoRet
    /\ ServerIdle

RetrieveReply ==
    /\ call.fn = "retrieve_node"
    /\ ~ret.done
    /\ state' = retrieve_node(state, testMode, call.first, call.second)
    /\ searchLog' = RetrieveCalls(state, testMode, TRUE, call.vector, call.first,
                                  call.second)
    /\ ret' = [done |-> TRUE, before |-> state]
    /\ UNCHANGED <<pc, turn, EnvVars, REGISTRY_CACHE, trace, entryCodes, call>>

NextRetrieve == RetrieveReply

SpecRetrieve == InitRetrieve /\ [][NextRetrieve]_vars

Retrieved == ret.done /\ call.fn = "retrieve_node"

\* The last search call of the invocation was not answered
SearchUnrecovered == searchLog # <<>> /\ Last(searchLog).answer # "ok"

\* C21: whatever the engine answers to the first search call and to the
\* retry, and whether or not the embedding gave a vector, retrieve_node
\* returns a state; when the last search call it issued was not answered, the
\* state holds no hits, one more entry in errors and one more in notices, and
\* when its search was answered neither list grows.
C21_RetrieveNeverRaises ==
    /\ (call.fn = "retrieve_node" /\ ~ret.done) => ENABLED RetrieveReply
    /\ Retrieved =>
           IF SearchUnrecovered
           THEN /\ state.hits = <<>>
                /\ state.errors = Append(ret.before.errors, "Search failed")
                /\ state.notices = Append(ret.before.notices, "search_issue")
           ELSE searchLog # <<>> =>
                    /\ state.errors = ret.before.errors
                    /\ state.notices = ret.before.notices

\* The engine rejected the plan filter and the retry failed as well, on a
\* search without a vector
C21_Witness ==
    /\ Retrieved
    /\ Len(searchLog) = 2
    /\ searchLog[2].answer = "error"
    /\ searchLog[1].vector = None
    /\ state.hits = <<>>
    /\ state.errors = <<"LLM Error", "Search failed">>
    /\ state.notices = <<"search_issue">>

(***************************************************************************)
(* route_node called directly                                              *)
(***************************************************************************)
\* The labels a state may hold as its intent: the classifier's, the legacy
\* ones, a label nobody knows, an empty one and none
RouteIntents ==
    {None, "", "company_overview", "analytics", "clarification", "retrieval",
     "status", "eta", "delay", "greeting", "smalltalk"}

\* A candidate as _topic_shift_candidate leaves it
RaisedCandidate ==
    _topic_shift_candidate("How many shipments do I have?",
                           "how many shipments do i have for container abcd1234567?")

InitRoute ==
    /\ pc = "lib"
    /\ \E intent \in RouteIntents, candidate \in {NoCandidate, RaisedCandidate},
          pending \in {NoPending, StoredPending} :
           state = [EmptyState EXCEPT
                        !.question_raw = "How many shipments do I have?",
                        !.normalized_question =
                            IF candidate.set THEN candidate.normalized
                            ELSE "how many shipments do i have?",
                        !.messages = <<"human", "ai", "human">>,
                        !.consignee_codes = << <<"9">> >>,
                        !.intent = intent,
                        !.topic_shift_candidate = candidate,
                        !.pending_topic_shift = pending]
    /\ call = [fn |-> "route_node"]
    /\ turn = 1
    /\ ALLOW_UNSAFE_SCOPE = FALSE
    /\ registryEnv = TurnRegistryEnv
    /\ REGISTRY_CACHE = NotLoaded
    /\ testMode \in BOOLEAN
    /\ searchLog = <<>>
    /\ trace = <<>>
    /\ entryCodes = << <<"9">> >>
    /\ ret = NoRet
    /\ ServerIdle

RouteReply ==
    /\ call.fn = "route_node"
    /\ ~ret.done
    /\ ret' = [done |-> TRUE, label |-> route_node(state)]
    /\ UNCHANGED <<pc, state, turn, EnvVars, REGISTRY_CACHE, searchLog, trace,
                   entryCodes, call>>

NextRoute == RouteReply

SpecRoute == InitRoute /\ [][NextRoute]_vars

Routed == ret.done /\ call.fn = "route_node"

\* C22: route_node answers for every intent and candidate, and its answer is:
\* static_info for company_overview, with or without a topic-shift candidate;
\* clarification for analytics with a candidate and analytics for analytics
\* without one; clarification for clarification; retrieval for retrieval and
\* the legacy labels status, eta and delay; end for greeting and for every
\* other or missing label.
C22_RouteTable ==
    /\ (call.fn = "route_node" /\ ~ret.done) => ENABLED RouteReply
    /\ Routed =>
           LET intent == state.intent
               shift == state.topic_shift_candidate.set
           IN  /\ intent = "company_overview" => ret.label = "static_info"
               /\ (intent = "analytics" /\ shift) => ret.label = "clarification"
               /\ (intent = "analytics" /\ ~shift) => ret.label = "analytics"
               /\ intent = "clarification" => ret.label = "clarification"
               /\ intent \in {"retrieval", "status", "eta", "delay"}
                      => ret.label = "retrieval"
               /\ intent \notin {"company_overview", "analytics", "clarification",
                                  "retrieval", "status", "eta", "delay"}
                      => ret.label = "end"

\* A legacy label routed to retrieval while a topic-shift candidate is raised
C22_Witness ==
    /\ Routed
    /\ state.intent = "eta"
    /\ state.topic_shift_candidate.set
    /\ ret.label = "retrieval"

(***************************************************************************)
(* intent_node called directly                                             *)
(***************************************************************************)
InitIntent ==
    /\ pc = "lib"
    /\ \E q \in UserQuestions :
           state = [EmptyState EXCEPT
                        !.question_raw = q,
                        !.normalized_question = QuestionInfo(q).lower,
                        !.messages = <<"human">>,
                        !.consignee_codes = << <<"9">> >>]
    /\ call \in {[fn |-> "intent_node", llm |-> l] : l \in ClassifierOutcomes}
    /\ turn = 1
    /\ ALLOW_UNSAFE_SCOPE = FALSE
    /\ registryEnv = TurnRegistryEnv
    /\ REGISTRY_CACHE = NotLoaded
    /\ testMode \in BOOLEAN
    /\ searchLog = <<>>
    /\ trace = <<>>
    /\ entryCodes = << <<"9">> >>
    /\ ret = NoRet
    /\ ServerIdle

IntentReply ==
    /\ call.fn = "intent_node"
    /\ ~ret.done
    /\ state' = intent_node(state, testMode, call.llm)
    /\ ret' = [done |-> TRUE, before |-> state,
               chat |-> ~IntentIsDeterministic(state, testMode)]
    /\ UNCHANGED <<pc, turn, EnvVars, REGISTRY_CACHE, searchLog, trace, entryCodes,
                   call>>

NextIntent == IntentReply

SpecIntent == InitIntent /\ [][NextIntent]_vars

Classified == ret.done /\ call.fn = "intent_node"

\* C23: whenever intent_node leaves the label company_overview or greeting,
\* it has made no call to the classifier service.
C23_SafetyLabelsWithoutCall ==
    (Classified /\ state.intent \in {"company_overview", "greeting"}) => ~ret.chat

\* The classifier failed or answered a label outside the known set
ClassifierFailed(llm) == llm.kind # "json" \/ llm.label \notin valid_intents

\* C33: for every classifier outcome (the call raises, the reply is not valid
\* JSON, the reply is no usable object, the label is outside the known set)
\* intent_node returns, the intent it leaves is one of retrieval, analytics,
\* greeting, company_overview, end, and after a failure or an unknown label
\* of a call it really made the intent is the fallback retrieval.
C33_IntentTotalAndConservative ==
    /\ (call.fn = "intent_node" /\ ~ret.done) => ENABLED IntentReply
    /\ Classified =>
           /\ state.intent \in valid_intents
           /\ (ret.chat /\ ClassifierFailed(call.llm)) => state.intent = "retrieval"

C33_Witness ==
    /\ Classified
    /\ ret.chat
    /\ call.llm.kind = "json"
    /\ call.llm.label = "smalltalk"
    /\ state.intent = "retrieval"
    /\ state.sub_intents = <<"smalltalk">>

(***************************************************************************)
(* The date window of _post_filter_hits, on one hit.  Times are hours      *)
(* since an epoch midnight (UTC).                                          *)
(***************************************************************************)
WindowNows == {NoNow, BadNow, 24, 40}

WindowClocks == {54, 71}

WindowDays == {1, 2}

WindowDates == {NoDate, BadDate, 23, 24, 30, 40, 47, 48, 54, 64, 71, 72, 78, 88,
                95, 96, 119, 120}

InitWindow ==
    /\ pc = "lib"
    /\ state = EmptyState
    /\ call \in {[fn |-> "_post_filter_hits", now_utc |-> n, clock |-> c,
                   date |-> d,
                   date_window |-> [set |-> TRUE, field |-> "optimal_ata_dp_date",
                                    days |-> k, direction |-> "next"]] :
                     n \in WindowNows, c \in WindowClocks, d \in WindowDates,
                     k \in WindowDays}
    /\ turn = 1
    /\ ALLOW_UNSAFE_SCOPE = FALSE
    /\ registryEnv = TurnRegistryEnv
    /\ REGISTRY_CACHE = NotLoaded
    /\ testMode = FALSE
    /\ searchLog = <<>>
    /\ trace = <<>>
    /\ entryCodes = <<>>
    /\ ret = NoRet
    /\ ServerIdle

WindowReply ==
    /\ call.fn = "_post_filter_hits"
    /\ ~ret.done
    /\ LET now_utc == _get_now_utc(call.now_utc, call.clock)
       IN  ret' = [done |-> TRUE,
                   kept |-> DateWindowKeeps(call.date, call.date_window,
                                            start_of_today(now_utc))]
    /\ UNCHANGED <<pc, state, turn, EnvVars, REGISTRY_CACHE, searchLog, trace,
                   entryCodes, call>>

NextWindow == WindowReply

SpecWindow == InitWindow /\ [][NextWindow]_vars

Windowed == ret.done /\ call.fn = "_post_filter_hits"

\* The present time of a call: the supplied now_utc when it is a time
WindowNow == IF call.now_utc \in Nat THEN call.now_utc ELSE call.clock

\* The midnight at or before the present time
WindowMidnight ==
    CHOOSE m \in 0..WindowNow : m % HoursPerDay = 0 /\ WindowNow - m < HoursPerDay

\* C24: a hit passes the 'next N days' window iff its date parses and lies
\* in [start of today, start of today + N days): a record dated now + N days
\* is dropped, one dated earlier today is kept, one without a usable date is
\* dropped; 'now' is the supplied now_utc when given.
C24_NextDaysWindow ==
    Windowed =>
        LET N == call.date_window.days
            parsed == call.date \in Nat
        IN  /\ ret.kept <=> (/\ parsed
                             /\ WindowMidnight <= call.date
                             /\ call.date < WindowMidnight + N * HoursPerDay)
            /\ call.date = WindowNow + N * HoursPerDay => ~ret.kept
            /\ (parsed /\ WindowMidnight <= call.date /\ call.date <= WindowNow)
                   => ret.kept
            /\ ~parsed => ~ret.kept

C24_Witness ==
    /\ Windowed
    /\ call.now_utc = 40
    /\ call.date = 30
    /\ call.date_window.days = 1
    /\ ret.kept

(***************************************************************************)
(* Identifiers extracted into more than one class (checked in SpecPlan)    *)
(***************************************************************************)
IdClassFields == {"container_number", "po_numbers", "booking_numbers", "obl_nos"}

\* The classes whose extracted pool holds the identifier
IdClasses(extracted, id) == {c \in IdClassFields : id \in Elems(extracted[c])}

ExtractedIdentifiers(extracted) ==
    UNION {Elems(extracted[c]) : c \in IdClassFields}

\* The clause of filter f around position i: the tokens between the nearest
\* "and" keywords
ClauseStart(f, i) ==
    CHOOSE j \in 1..i : /\ j = 1 \/ f[j - 1] = "and"
                        /\ \A k \in j..i : f[k] # "and"

ClauseEnd(f, i) ==
    CHOOSE j \in i..Len(f) : /\ j = Len(f) \/ f[j + 1] = "and"
                             /\ \A k \in i..j : f[k] # "and"

ClauseFields(f, i) ==
    {f[k] : k \in ClauseStart(f, i)..ClauseEnd(f, i)} \cap IdClassFields

\* The value is written into f at position k
WrittenAt(f, id, k) ==
    LET v == _safe(id)
    IN  k + Len(v) - 1 <= Len(f) /\ SubSeq(f, k, k + Len(v) - 1) = v

\* The clauses of f that mention the value, each known by its first position
ClausesHolding(f, id) ==
    {ClauseStart(f, i) : i \in {k \in DOMAIN f : WrittenAt(f, id, k)}}

Planned == call.fn = "planner_node" /\ state.retrieval_plan.set

SharedIdentifiers ==
    {id \in ExtractedIdentifiers(state.extracted_ids) :
        Cardinality(IdClasses(state.extracted_ids, id)) > 1}

\* C25 as stated: an identifier extracted into more than one of the four
\* classes is in exactly one clause of the plan filter, and that clause ORs
\* across all the classes it was extracted into.
C25_SharedIdOrAcrossClasses ==
    Planned =>
        \A id \in SharedIdentifiers :
            LET f == state.retrieval_plan.extra_filter
            IN  /\ Cardinality(ClausesHolding(f, id)) = 1
                /\ \A i \in ClausesHolding(f, id) :
                       IdClasses(state.extracted_ids, id) \subseteq ClauseFields(f, i)

\* C25: an identifier extracted into more than one class is in exactly one
\* clause of the plan filter, never in two clauses joined by "and": the
\* container clause alone when it is a container number, otherwise one
\* clause that ORs across purchase orders, bookings and bills of lading.
C25_SharedIdInOneClause ==
    Planned =>
        \A id \in SharedIdentifiers :
            LET f == state.retrieval_plan.extra_filter
                classes == IdClasses(state.extracted_ids, id)
            IN  /\ Cardinality(ClausesHolding(f, id)) = 1
                /\ \A i \in ClausesHolding(f, id) :
                       ClauseFields(f, i) =
                           IF "container_number" \in classes
                           THEN {"container_number"}
                           ELSE {"po_numbers", "booking_numbers", "obl_nos"}

C25_Witness ==
    /\ Planned
    /\ state.extracted_ids.container_number = <<>>
    /\ state.extracted_ids.po_numbers = <<IdNumber>>
    /\ state.extracted_ids.booking_numbers = <<IdNumber>>
    /\ state.extracted_ids.status_keywords # <<>>
    /\ Cardinality(ClausesHolding(state.retrieval_plan.extra_filter, IdNumber)) = 1

(***************************************************************************)
(* An unsafe suggestion merged with deterministic clauses (SpecPlan)       *)
(***************************************************************************)
\* The clauses the planner derives from the extracted entities alone
DeterministicClauses ==
    PlannerClauses(state.normalized_question, state.extracted_ids, <<>>)

\* The planner merged an unsafe suggestion of the model with clauses of its
\* own, and the search has been made
UnsafeSuggestionMerged ==
    /\ call.fn = "planner_node"
    /\ pc = "answer"
    /\ searchLog # <<>>
    /\ call.plan_data.extra_filter # <<>>
    /\ ~_is_filter_safe(call.plan_data.extra_filter)
    /\ PlannerPools(state.extracted_ids).all_ids = {}
    /\ DeterministicClauses # <<>>

ValidatedPayloads ==
    {PList(l) : l \in {<< <<"7">> >>, << <<"9">> >>, << <<"8">> >>,
                        << <<"7">>, <<"9">> >>, << <<"9">>, <<"7">> >>,
                        << <<"7">>, <<"8">> >>}}

InitChat ==
    /\ pc = "idle"
    /\ state = EmptyState
    /\ turn = 0
    /\ ALLOW_UNSAFE_SCOPE \in BOOLEAN
    /\ registryEnv \in RegistryEnvs
    /\ REGISTRY_CACHE = NotLoaded
    /\ testMode = FALSE
    /\ searchLog = <<>>
    /\ trace = <<>>
    /\ entryCodes = <<>>
    /\ call \in {[fn |-> "chat_endpoint", question |-> q, user_identity |-> id,
                   payload_codes |-> p] :
                     q \in {"How many shipments do I have?", "hello"},
                     id \in CallerIdentities, p \in ValidatedPayloads}
    /\ ret = NoRet
    /\ ServerIdle

PostChat ==
    /\ call.fn = "chat_endpoint"
    /\ chat_endpoint(call.question, call.user_identity, call.payload_codes)

NextChat == PostChat

SpecChat == InitChat /\ [][NextChat]_vars

GraphStarted == call.fn = "chat_endpoint" /\ pc = "normalize"

\* C27: the consignee codes the graph is started on are exactly the list
\* resolve_allowed_scope returns for the request's identity and payload
\* codes; when that list differs from the payload's (a strict subset, the
\* empty list) the graph does not see the payload's codes.
C27_GraphSeesResolvedScope ==
    GraphStarted =>
        LET resolved == resolve_allowed_scope(call.user_identity, call.payload_codes,
                                              RegistrySeen, ALLOW_UNSAFE_SCOPE)
        IN  /\ state.consignee_codes = resolved
            /\ state.question_raw = call.question
            /\ resolved # call.payload_codes.v
                   => state.consignee_codes # call.payload_codes.v

C27_Witness ==
    /\ GraphStarted
    /\ call.user_identity = "user1"
    /\ call.payload_codes = PList(<< <<"7">>, <<"8">> >>)
    /\ AllowedCodes("user1") = << <<"7">>, <<"9">> >>
    /\ state.consignee_codes = << <<"7">> >>

(***************************************************************************)
(* models/schemas.py: the ChatRequest validators, called as                *)
(* tests/test_schemas_chat.py calls them                                   *)
(***************************************************************************)
\* _split_codes, lines 10-11
_split_codes(s) == StripNonBlank(split(s))

\* Lines 94-100: every non-blank item of a list, trimmed and cut at its commas
RECURSIVE SplitItems(_)
SplitItems(items) ==
    IF items = <<>> THEN <<>>
    ELSE LET s == strip(Head(items))
         IN  (IF s = <<>> THEN <<>> ELSE _split_codes(s)) \o SplitItems(Tail(items))

ValidationError(msg) == [ok |-> FALSE, error |-> msg]

Valid(v) == [ok |-> TRUE, value |-> v]

\* normalize_question, lines 65-71
normalize_question(v) ==
    LET q == IF v.t = "none" THEN <<>> ELSE strip(v.v)
    IN  IF q = <<>> THEN ValidationError("question must not be empty") ELSE Valid(q)

\* A slip: the elements of a list are not cut at their commas
normalize_consignee_codes_whole_items(v) ==
    IF v.t = "none" THEN ValidationError("consignee_codes is required")
    ELSE LET codes == _dedupe_preserve_order(
                          IF v.t = "list" THEN StripNonBlank(v.v)
                          ELSE _split_codes(v.v))
         IN  IF codes = <<>>
             THEN ValidationError("consignee_codes contain at least 1 codes")
             ELSE Valid(codes)

\* normalize_consignee_codes, lines 73-104
normalize_consignee_codes(v) ==
    IF v.t = "none" THEN ValidationError("consignee_codes is required")
    ELSE LET codes == _dedupe_preserve_order(
                          IF v.t = "list" THEN SplitItems(v.v)
                          ELSE _split_codes(v.v))
         IN  IF codes = <<>>
             THEN ValidationError("consignee_codes contain at least 1 codes")
             ELSE Valid(codes)

\* ChatRequest(question=..., consignee_codes=...), lines 24-104: the request
\* object, or the validation error raised
ChatRequest(question, consignee_codes) ==
    LET q == normalize_question(question)
        c == normalize_consignee_codes(consignee_codes)
    IN  IF q.ok /\ c.ok
        THEN [ok |-> TRUE, question |-> q.value, consignee_codes |-> c.value]
        ELSE [ok |-> FALSE]

RequestQuestions ==
    {PNone, PStr(<<>>), PStr(<<" ">>), PStr(<<"o", "k">>), PStr(<<" ", "o", " ">>)}

RequestCodes == CallerPayloads \ {POther}

InitRequest ==
    /\ pc = "lib"
    /\ state = EmptyState
    /\ turn = 0
    /\ ALLOW_UNSAFE_SCOPE = FALSE
    /\ registryEnv = TurnRegistryEnv
    /\ REGISTRY_CACHE = NotLoaded
    /\ testMode = FALSE
    /\ searchLog = <<>>
    /\ trace = <<>>
    /\ entryCodes = <<>>
    /\ call \in {[fn |-> "ChatRequest", question |-> q, consignee_codes |-> c] :
                     q \in RequestQuestions, c \in RequestCodes}
    /\ ret = NoRet
    /\ ServerIdle

ValidateRequest ==
    /\ call.fn = "ChatRequest"
    /\ ~ret.done
    /\ ret' = [done |-> TRUE,
               value |-> ChatRequest(call.question, call.consignee_codes)]
    /\ UNCHANGED <<pc, state, turn, EnvVars, REGISTRY_CACHE, searchLog, trace,
                   entryCodes, call>>

NextRequest == ValidateRequest

SpecRequest == InitRequest /\ [][NextRequest]_vars

Validated == ret.done /\ call.fn = "ChatRequest"

\* C28: ChatRequest turns codes given as one comma-separated string, or as
\* a list whose elements may be comma-packed, into the list of trimmed,
\* non-empty codes without duplicates in first-occurrence order; applying
\* it to its own result changes nothing; a blank question or an empty
\* resulting list of codes is rejected with a validation error.
C28_RequestNormalized ==
    Validated =>
        LET expected == RequestedCodesSplit(call.consignee_codes)
            blank == call.question.t = "none" \/ strip(call.question.v) = <<>>
        IN  /\ ret.value.ok <=> (~blank /\ expected # <<>>)
            /\ ret.value.ok =>
                   LET codes == ret.value.consignee_codes
                   IN  /\ codes = expected
                       /\ \A i \in DOMAIN codes :
                              /\ codes[i] # <<>>
                              /\ strip(codes[i]) = codes[i]
                              /\ "," \notin Elems(codes[i])
                              /\ \A j \in DOMAIN codes : codes[j] = codes[i] => j = i
                       /\ ret.value.question = strip(call.question.v)
                       /\ ChatRequest(PStr(ret.value.question), PList(codes))
                              = ret.value

C28_Witness ==
    /\ Validated
    /\ call.question = PStr(<<" ", "o", " ">>)
    /\ call.consignee_codes = PList(<< <<"7", ",", "9">>, <<"7">> >>)
    /\ ret.value.ok
    /\ ret.value.question = <<"o">>
    /\ ret.value.consignee_codes = << <<"7">>, <<"9">> >>

(***************************************************************************)
(* The server under concurrent requests.  chat_endpoint is a coroutine     *)
(* whose body holds no await (api/routes_chat.py 17-107): run_graph and    *)
(* every node it runs are plain calls, so the event loop runs a handler    *)
(* from its first line to its return before it takes up another request.   *)
(* The handler is followed through its reads and writes of shared state:   *)
(* the lazily built module globals, each tested and assigned in two steps, *)
(* and the conversation's checkpoint, read at the start of the turn and    *)
(* written at its end.                                                     *)
(***************************************************************************)
MaxRequests == 3

Requests == 1..MaxRequests

Conversations == {"c1", "c2"}

\* The shared state one turn touches, in order: builder.run_graph line 190,
\* the checkpoint read, retrieve_node lines 178 and 292, judge_node line
\* 110, the checkpoint write, the handler's return
HandlerSteps ==
    <<"_COMPILED_GRAPH", "load", "_EMBED", "_SEARCH", "_CHAT_TOOL", "commit",
      "return">>

Queued == 0

Answered == Len(HandlerSteps) + 1

StepOf(r) ==
    IF loop.at[r] \in DOMAIN HandlerSteps THEN HandlerSteps[loop.at[r]] ELSE "none"

InitServe ==
    /\ pc = "serve"
    /\ state = EmptyState
    /\ turn = 0
    /\ ALLOW_UNSAFE_SCOPE = FALSE
    /\ registryEnv = TurnRegistryEnv
    /\ REGISTRY_CACHE = NotLoaded
    /\ testMode = FALSE
    /\ searchLog = <<>>
    /\ trace = <<>>
    /\ entryCodes = <<>>
    /\ call \in {[fn |-> "serve", conversation_id |-> c] :
                     c \in [Requests -> Conversations]}
    /\ ret = [done |-> FALSE]
    /\ singletons = NoSingletons
    /\ loop = [running |-> {},
               at |-> [r \in Requests |-> Queued],
               testedNone |-> [r \in Requests |-> FALSE],
               got |-> [r \in Requests |-> NoSingletons],
               built |-> NoSingletons,
               base |-> [r \in Requests |-> <<>>]]
    /\ checkpoints = [c \in Conversations |-> <<>>]

ServeFrame ==
    UNCHANGED <<pc, state, turn, ALLOW_UNSAFE_SCOPE, registryEnv, REGISTRY_CACHE,
                testMode, searchLog, trace, entryCodes, call, ret>>

\* A slip: handlers run on threads, a request is taken up at any time
CanStartAnyTime(running) == TRUE

\* The event loop takes up a request when no handler is running
CanStart(running) == running = {}

\* A slip: a client is made on every call
IsNoneAlways(v) == TRUE

\* `if _X is None`
IsNone(v) == v = 0

\* chat_endpoint begins
Accept(r) ==
    /\ loop.at[r] = Queued
    /\ CanStart(loop.running)
    /\ loop' = [loop EXCEPT !.running = @ \cup {r}, !.at[r] = 1]
    /\ UNCHANGED <<singletons, checkpoints>>
    /\ ServeFrame

\* get_compiled_graph, _get_embedder, _get_search, _get_chat_tool: the test
\* of the global, and the return of the instance it holds
TestGlobal(r) ==
    /\ r \in loop.running
    /\ StepOf(r) \in SingletonNames
    /\ ~loop.testedNone[r]
    /\ LET k == StepOf(r)
       IN  IF IsNone(singletons[k])
           THEN loop' = [loop EXCEPT !.testedNone[r] = TRUE]
           ELSE loop' = [loop EXCEPT !.got[r][k] = singletons[k], !.at[r] = @ + 1]
    /\ UNCHANGED <<singletons, checkpoints>>
    /\ ServeFrame

\* The same getters: the construction of the instance and its assignment
AssignGlobal(r) ==
    /\ r \in loop.running
    /\ StepOf(r) \in SingletonNames
    /\ loop.testedNone[r]
    /\ LET k == StepOf(r)
           instance == loop.built[k] + 1
       IN  /\ singletons' = [singletons EXCEPT ![k] = instance]
           /\ loop' = [loop EXCEPT !.built[k] = instance,
                                   !.got[r][k] = instance,
                                   !.testedNone[r] = FALSE,
                                   !.at[r] = @ + 1]
    /\ UNCHANGED checkpoints
    /\ ServeFrame

\* The turn starts from the conversation's checkpoint
LoadCheckpoint(r) ==
    /\ r \in loop.running
    /\ StepOf(r) = "load"
    /\ loop' = [loop EXCEPT !.base[r] = checkpoints[call.conversation_id[r]],
                            !.at[r] = @ + 1]
    /\ UNCHANGED <<singletons, checkpoints>>
    /\ ServeFrame

\* The turn's final state becomes the conversation's checkpoint
CommitCheckpoint(r) ==
    /\ r \in loop.running
    /\ StepOf(r) = "commit"
    /\ checkpoints' = [checkpoints EXCEPT ![call.conversation_id[r]] =
                           Append(loop.base[r], r)]
    /\ loop' = [loop EXCEPT !.at[r] = @ + 1]
    /\ UNCHANGED singletons
    /\ ServeFrame

\* chat_endpoint returns its ChatAnswer
Respond(r) ==
    /\ r \in loop.running
    /\ StepOf(r) = "return"
    /\ loop' = [loop EXCEPT !.running = @ \ {r}, !.at[r] = Answered]
    /\ UNCHANGED <<singletons, checkpoints>>
    /\ ServeFrame

NextServe ==
    \E r \in Requests :
        \/ Accept(r)
        \/ TestGlobal(r)
        \/ AssignGlobal(r)
        \/ LoadCheckpoint(r)
        \/ CommitCheckpoint(r)
        \/ Respond(r)

SpecServe == InitServe /\ [][NextServe]_vars

Serving == call.fn = "serve"

InTurn(r) == loop.at[r] \notin {Queued, Answered}

Committed(r) == loop.at[r] > 6

Loaded(r) == loop.at[r] > 2

SameConversation(r1, r2) ==
    r1 # r2 /\ call.conversation_id[r1] = call.conversation_id[r2]

MaxSessionTurns == 2

StubIntents == {"retrieval", "end"}

SessionTurns ==
    {[consignee_codes |-> c, conversation_id |-> id, intent |-> i] :
        c \in {<< <<"7">> >>, << <<"9">> >>}, id \in {None, "conv-1"},
        i \in StubIntents}

\* request.session of a client that has sent no cookie yet
EmptySession == [consignee_codes |-> <<>>, conversation_id |-> None, written |-> FALSE]

\* The routes of the application: main.py 36-56, routes_chat.py 14-17
AppRoutes == {<<"GET", "/">>, <<"GET", "/api/health">>, <<"POST", "/api/chat">>}

NotFound == [status |-> 404]

InitSession ==
    /\ pc = "lib"
    /\ state = EmptyState
    /\ turn = 0
    /\ ALLOW_UNSAFE_SCOPE = TRUE
    /\ registryEnv = TurnRegistryEnv
    /\ REGISTRY_CACHE = NotLoaded
    /\ testMode = FALSE
    /\ searchLog = <<>>
    /\ trace = <<>>
    /\ entryCodes = <<>>
    /\ call \in {[fn |-> "session", turns |-> t] :
                     t \in UNION {[1..n -> SessionTurns] : n \in 1..MaxSessionTurns}}
    /\ ret = [done |-> FALSE, served |-> 0, session |-> EmptySession,
              last_intent |-> None]
    /\ ServerIdle

\* POST /api/chat: chat_endpoint, lines 17-198, with the stubbed run_graph;
\* the session of the client is left as it was
SessionChat ==
    /\ call.fn = "session"
    /\ ~ret.done
    /\ ret.served < Len(call.turns)
    /\ ret' = [ret EXCEPT !.served = @ + 1,
                          !.last_intent = call.turns[ret.served + 1].intent]
    /\ UNCHANGED <<pc, state, turn, EnvVars, REGISTRY_CACHE, searchLog, trace,
                   entryCodes, call>>

\* GET /api/session: the application has no such route
SessionGet ==
    /\ call.fn = "session"
    /\ ~ret.done
    /\ ret.served = Len(call.turns)
    /\ ret' = [ret EXCEPT !.done = TRUE] @@
              [response |-> IF <<"GET", "/api/session">> \in AppRoutes
                            THEN [status |-> 200,
                                  consignee_codes |-> ret.session.consignee_codes,
                                  conversation_id |-> ret.session.conversation_id]
                            ELSE NotFound]
    /\ UNCHANGED <<pc, state, turn, EnvVars, REGISTRY_CACHE, searchLog, trace,
                   entryCodes, call>>

NextSession ==
    \/ SessionChat
    \/ SessionGet

SpecSession == InitSession /\ [][NextSession]_vars

SessionAsked == call.fn = "session" /\ ret.done

\* C31: after any sequence of chat requests, GET /api/session answers with
\* the consignee codes and the conversation id of the latest turn whose
\* intent was not 'end'; after a turn whose intent is 'end' it answers with
\* an empty code list and no conversation id.
C31_SessionFollowsTurns ==
    SessionAsked =>
        /\ ret.response.status = 200
        /\ IF Last(call.turns).intent = "end"
           THEN /\ ret.response.consignee_codes = <<>>
                /\ ret.response.conversation_id = None
           ELSE /\ ret.response.consignee_codes = Last(call.turns).consignee_codes
                /\ (Last(call.turns).conversation_id # None
                        => ret.response.conversation_id
                               = Last(call.turns).conversation_id)

(***************************************************************************)
(* The analytics path called directly: analytics_planner_node and          *)
(* retrieve_node on states whose intent is analytics                       *)
(***************************************************************************)
AnalyticsEntryStates ==
    {[EmptyState EXCEPT
          !.question_raw = "How many shipments do I have?",
          !.normalized_question = "how many shipments do i have?",
          !.consignee_codes = codes,
          !.messages = <<"human">>,
          !.intent = "analytics",
          !.sub_intents = <<"analytics">>,
          !.errors = errs] :
        codes \in {<<>>, << <<"9">> >>, << <<"7">>, <<"9">> >>},
        errs \in {<<>>, <<"LLM Error">>}}

InitAnalytics ==
    /\ pc = "lib"
    /\ state \in AnalyticsEntryStates
    /\ call \in {[fn |-> "analytics_planner_node", outcome |-> o] :
                     o \in AnalyticsOutcomes}
               \cup {[fn |-> "retrieve_node", first |-> f, second |-> InvalidFilter,
                       vector |-> v] :
                        f \in AllFirstSearchOutcomes, v \in Vectors}
    /\ turn = 1
    /\ ALLOW_UNSAFE_SCOPE = FALSE
    /\ registryEnv = TurnRegistryEnv
    /\ REGISTRY_CACHE = NotLoaded
    /\ testMode \in BOOLEAN
    /\ searchLog = <<>>
    /\ trace = <<>>
    /\ entryCodes = state.consignee_codes
    /\ ret = NoRet
    /\ ServerIdle

AnalyticsReply ==
    /\ call.fn = "analytics_planner_node"
    /\ ~ret.done
    /\ testMode => call.outcome \notin {"code_gen_error", "no_code"}
    /\ state' = analytics_planner_node(state, call.outcome)
    /\ ret' = [done |-> TRUE, before |-> state,
               loaded |-> AnalyticsLoadsData(state),
               executed |-> AnalyticsExecutesCode(state, call.outcome)]
    /\ UNCHANGED <<pc, turn, EnvVars, REGISTRY_CACHE, searchLog, trace, entryCodes,
                   call>>

NextAnalytics ==
    \/ AnalyticsReply
    \/ RetrieveReply

SpecAnalytics == InitAnalytics /\ [][NextAnalytics]_vars

AnalyticsRan == ret.done /\ call.fn = "analytics_planner_node"

\* C32: on a state without authorized scope analytics_planner_node loads no
\* data and executes no code; it appends the authorization error and leaves
\* the rest of the state, the answer included, as it was.  retrieve_node on
\* a state whose intent is analytics issues no search and returns no hits.
C32_AnalyticsFailsClosed ==
    /\ (AnalyticsRan /\ ret.before.consignee_codes = <<>>)
           => /\ ~ret.loaded
              /\ ~ret.executed
              /\ state = [ret.before EXCEPT !.errors =
                              Append(@, "No authorized consignee codes for analytics.")]
              /\ state.answer_text = None
    /\ (Retrieved /\ ret.before.intent = "analytics")
           => /\ searchLog = <<>>
              /\ state.hits = <<>>

C32_Witness ==
    /\ AnalyticsRan
    /\ ret.before.consignee_codes = <<>>
    /\ call.outcome = "success"
    /\ ~testMode
    /\ Len(state.errors) = 2
    /\ ~state.is_satisfied

(***************************************************************************)
(* What a turn hands to the response after retries                         *)
(***************************************************************************)
\* C34: at the end of every turn the citation list is made of the first
\* hits (five at most, in hit order) of the turn's final hit list, so it is
\* empty when that list is empty, whatever retries and turns came before.
C34_CitationsFromFinalHits ==
    pc = "done" => IsPrefix(state.citations, Take(state.hits, 5))

\* The Retriever has just returned without a search response to read: the
\* scope was empty, or the last search call of the attempt failed
RetrievalRefused == pc = "answer" /\ state.consignee_codes = <<>>

RetrievalFailed ==
    /\ pc = "answer"
    /\ searchLog # <<>>
    /\ searchLog[Len(searchLog)].answer # "ok"

\* C36: after every return of retrieve_node the aggregate belongs to the
\* attempt that produced the hit list: when the attempt was refused for an
\* empty scope or its search failed, no positive count of an earlier attempt
\* or turn is left, so the Answerer reports that nothing was found.
C36_AggregateOfSameAttempt ==
    (RetrievalRefused \/ RetrievalFailed)
        => /\ state.hits = <<>>
           /\ NoInformation(state)

\* C37: at the end of every turn a table is built from the hits of the
\* final retrieval attempt; no table of an earlier attempt survives a retry.
C37_TableFromFinalHits ==
    (pc = "done" /\ state.table_spec.set) => state.table_spec.rows = state.hits

(***************************************************************************)
(* The delay threshold, from the question to one hit                       *)
(***************************************************************************)
MaxDelayDays == 3

DelayDayCounts == {NoInt} \cup 0..MaxDelayDays

DelayValues == {NoDelay, BadDelay} \cup 0..(MaxDelayDays + 1)

InitDelay ==
    /\ pc = "lib"
    /\ state = EmptyState
    /\ call \in [fn : {"delay"}, mentions_delay : BOOLEAN,
                 day_count : DelayDayCounts, fd : BOOLEAN,
                 dp_delayed_dur : DelayValues, fd_delayed_dur : DelayValues]
    /\ turn = 1
    /\ ALLOW_UNSAFE_SCOPE = FALSE
    /\ registryEnv = TurnRegistryEnv
    /\ REGISTRY_CACHE = NotLoaded
    /\ testMode = FALSE
    /\ searchLog = <<>>
    /\ trace = <<>>
    /\ entryCodes = <<>>
    /\ ret = NoRet
    /\ ServerIdle

\* The Planner writes the rule
PlanDelay ==
    /\ call.fn = "delay"
    /\ ~ret.done
    /\ ret' = [done |-> TRUE, filtered |-> FALSE,
               rule |-> DelayRule(_extract_delay_days(call.mentions_delay,
                                                      call.day_count),
                                  call.fd)]
    /\ UNCHANGED <<pc, state, turn, EnvVars, REGISTRY_CACHE, searchLog, trace,
                   entryCodes, call>>

\* The Retriever applies it to a hit
FilterDelay ==
    /\ call.fn = "delay"
    /\ ret.done
    /\ ~ret.filtered
    /\ LET raw_delay == IF ret.rule.set /\ ret.rule.field = "fd_delayed_dur"
                        THEN call.fd_delayed_dur ELSE call.dp_delayed_dur
       IN  ret' = [ret EXCEPT !.filtered = TRUE] @@
                  [kept |-> DelayKeeps(raw_delay, ret.rule)]
    /\ UNCHANGED <<pc, state, turn, EnvVars, REGISTRY_CACHE, searchLog, trace,
                   entryCodes, call>>

NextDelay == PlanDelay \/ FilterDelay

SpecDelay == InitDelay /\ [][NextDelay]_vars

DelayFiltered == call.fn = "delay" /\ ret.done /\ ret.filtered

\* The delay of the hit in the field the question is about, as a number
HitDelay ==
    LET raw == IF call.fd THEN call.fd_delayed_dur ELSE call.dp_delayed_dur
    IN  IF raw \in {NoDelay, BadDelay} THEN 0 ELSE raw

\* C35: one policy for the delay threshold: a question about delay with an
\* explicit day count N > 0 keeps exactly the hits whose delay is at least
\* N, one without a day count keeps exactly the hits whose delay is above
\* 0, a missing or non-numeric delay counts as 0, and the Retriever
\* compares with the operator the Planner wrote.
C35_DelayThresholdPolicy ==
    DelayFiltered =>
        /\ ~call.mentions_delay => (~ret.rule.set /\ ret.kept)
        /\ (call.mentions_delay /\ call.day_count \notin {NoInt, 0})
               => /\ ret.rule.op = ">="
                  /\ ret.kept <=> HitDelay >= call.day_count
        /\ (call.mentions_delay /\ call.day_count = NoInt)
               => /\ ret.rule.op = ">"
                  /\ ret.kept <=> HitDelay > 0

C35_Witness ==
    /\ DelayFiltered
    /\ call.mentions_delay
    /\ call.day_count = 2
    /\ ~call.fd
    /\ call.dp_delayed_dur = 2
    /\ call.fd_delayed_dur = NoDelay
    /\ ret.kept

(***************************************************************************)
(* The start of a turn over the checkpoint of the turn before              *)
(***************************************************************************)
\* How a turn can leave the verdict: no Judge ran, the Judge was satisfied
\* after some retries, or the retries were used up
TurnEndVerdicts ==
    {[is_satisfied |-> FALSE, retry_count |-> 0],
     [is_satisfied |-> FALSE, retry_count |-> max_retries]}
    \cup {[is_satisfied |-> TRUE, retry_count |-> k] : k \in 0..(max_retries - 1)}

InitTurnStart ==
    /\ pc = "lib"
    /\ \E v \in TurnEndVerdicts, hits \in {<<>>, <<"d1", "d2">>},
          feedback \in JudgeFeedbacks, codes \in {<<>>, << <<"9">> >>} :
           state = [EmptyState EXCEPT
                        !.question_raw = "Where is it?",
                        !.consignee_codes = codes,
                        !.messages = <<"human", "ai">>,
                        !.hits = hits,
                        !.citations = hits,
                        !.is_satisfied = v.is_satisfied,
                        !.retry_count = v.retry_count,
                        !.reflection_feedback = feedback]
    /\ call \in [fn : {"run_graph"}, question_raw : TurnQuestions,
                 consignee_codes : {<<>>, << <<"9">> >>}]
    /\ turn = 1
    /\ ALLOW_UNSAFE_SCOPE = FALSE
    /\ registryEnv = TurnRegistryEnv
    /\ REGISTRY_CACHE = NotLoaded
    /\ testMode = FALSE
    /\ searchLog = <<>>
    /\ trace = <<>>
    /\ entryCodes = <<>>
    /\ ret = NoRet
    /\ ServerIdle

StartTurn ==
    /\ call.fn = "run_graph"
    /\ ~ret.done
    /\ state' = run_graph(state, call.question_raw, call.consignee_codes)
    /\ turn' = turn + 1
    /\ ret' = [done |-> TRUE, before |-> state]
    /\ UNCHANGED <<pc, EnvVars, REGISTRY_CACHE, searchLog, trace, entryCodes, call>>

NextTurnStart == StartTurn

SpecTurnStart == InitTurnStart /\ [][NextTurnStart]_vars

TurnStarted == call.fn = "run_graph" /\ ret.done

InitJudge ==
    /\ pc = "lib"
    /\ \E hits \in {<<>>, <<"d1", "d2">>}, retry_count \in 0..(max_retries - 1) :
           state = [EmptyState EXCEPT
                        !.question_raw = "Where is container ABCD1234567?",
                        !.normalized_question = "where is container abcd1234567?",
                        !.consignee_codes = << <<"9">> >>,
                        !.messages = <<"human", "ai">>,
                        !.intent = "retrieval",
                        !.hits = hits,
                        !.answer_text = IF hits = <<>> THEN "no_info" ELSE "plain",
                        !.retry_count = retry_count]
    /\ call \in {[fn |-> "judge_node", llm |-> l] : l \in JudgeOutcomes}
    /\ turn = 1
    /\ ALLOW_UNSAFE_SCOPE = FALSE
    /\ registryEnv = TurnRegistryEnv
    /\ REGISTRY_CACHE = NotLoaded
    /\ testMode \in BOOLEAN
    /\ searchLog = <<>>
    /\ trace = <<>>
    /\ entryCodes = << <<"9">> >>
    /\ ret = NoRet
    /\ ServerIdle

JudgeReply ==
    /\ call.fn = "judge_node"
    /\ ~ret.done
    /\ state' = judge_node(state, testMode, call.llm)
    /\ ret' = [done |-> TRUE, before |-> state,
               chat |-> JudgeCallsChat(state, testMode)]
    /\ UNCHANGED <<pc, turn, EnvVars, REGISTRY_CACHE, searchLog, trace, entryCodes,
                   call>>

NextJudge == JudgeReply

SpecJudge == InitJudge /\ [][NextJudge]_vars

Judged == call.fn = "judge_node" /\ ret.done

RetryRequested ==
    /\ ~state.is_satisfied
    /\ state.retry_count = ret.before.retry_count + 1

\* C39: judge_node asks for a retry (is_satisfied false, retry_count one
\* higher) only on a well-formed verdict whose decision is retry; a reply
\* that cannot be parsed, and a parsed reply whose decision is neither
\* satisfied nor retry, end the evaluation as satisfied.
C39_RetryOnlyOnRetryVerdict ==
    Judged =>
        /\ RetryRequested
               => (ret.chat /\ call.llm.kind = "json" /\ call.llm.decision = "retry")
        /\ ~RetryRequested
               => (state.is_satisfied /\ state.retry_count = ret.before.retry_count)

(***************************************************************************)
(* tools/azure_openai_embeddings.py: embed_query, one step per attempt     *)
(***************************************************************************)
MaxEmbedRetries == 2

\* Line 55: the attempts allowed when AZURE_OPENAI_EMBED_MAX_RETRIES is unset
EmbedDefaultRetries == 5

\* Lines 58-74
transient_markers ==
    {"ratelimit", "rate limit", "429", "timeout", "timed out",
     "service unavailable", "temporarily unavailable", "500", "502", "503",
     "504", "connection reset", "connection aborted", "econnreset",
     "gateway timeout"}

\* What an attempt may raise, and the markers its lower-cased text holds
EmbedErrors ==
    {"Error code: 429 - Rate limit reached", "Connection reset by peer",
     "Error code: 401 - Unauthorized", "list index out of range"}

ErrorMarkers(msg) ==
    CASE msg = "Error code: 429 - Rate limit reached" -> {"429", "rate limit"}
      [] msg = "Connection reset by peer" -> {"connection reset"}
      [] OTHER -> {}

\* A slip: every error is retried
IsTransientAlways(msg) == TRUE

\* Lines 86-88: any(marker in msg_lower for marker in transient_markers)
IsTransient(msg) == ErrorMarkers(msg) \cap transient_markers # {}

\* Line 55: int(os.getenv("AZURE_OPENAI_EMBED_MAX_RETRIES", "5"))
EmbedMaxRetries(env) == IF env.set THEN env.v ELSE EmbedDefaultRetries

EmbedEnvs == {[set |-> FALSE]} \cup {[set |-> TRUE, v |-> n] : n \in 0..MaxEmbedRetries}

\* Lines 51-54: the returns before the loop
EmbedSkips == testMode \/ call.text = ""

InitEmbed ==
    /\ pc = "lib"
    /\ state = EmptyState
    /\ call \in [fn : {"embed_query"}, text : {"", "where is container abcd1234567?"},
                 env : EmbedEnvs]
    /\ turn = 1
    /\ ALLOW_UNSAFE_SCOPE = FALSE
    /\ registryEnv = TurnRegistryEnv
    /\ REGISTRY_CACHE = NotLoaded
    /\ testMode \in BOOLEAN
    /\ searchLog = <<>>
    /\ trace = <<>>
    /\ entryCodes = <<>>
    /\ ret = [done |-> FALSE, attempts |-> 0, errors |-> <<>>, result |-> None]
    /\ ServerIdle

EmbedFrame ==
    UNCHANGED <<pc, state, turn, EnvVars, REGISTRY_CACHE, searchLog, trace,
                entryCodes, call>>

\* Lines 51-54: test mode and an empty text return [] without a call
EmbedSkip ==
    /\ call.fn = "embed_query"
    /\ ~ret.done
    /\ EmbedSkips
    /\ ret' = [ret EXCEPT !.done = TRUE, !.result = "empty"]
    /\ EmbedFrame

\* Lines 76-90: one pass of the loop
EmbedAttempt ==
    /\ call.fn = "embed_query"
    /\ ~ret.done
    /\ ~EmbedSkips
    /\ ret.attempts < EmbedMaxRetries(call.env)
    /\ \/ ret' = [ret EXCEPT !.attempts = @ + 1, !.done = TRUE,
                              !.result = "embedding"]
       \/ \E e \in EmbedErrors :
              ret' = IF IsTransient(e)
                     THEN [ret EXCEPT !.attempts = @ + 1, !.errors = Append(@, e)]
                     ELSE [ret EXCEPT !.attempts = @ + 1, !.errors = Append(@, e),
                                      !.done = TRUE, !.result = "RuntimeError"]
    /\ EmbedFrame

\* Lines 92-94: the loop ran out
EmbedExhausted ==
    /\ call.fn = "embed_query"
    /\ ~ret.done
    /\ ~EmbedSkips
    /\ ret.attempts >= EmbedMaxRetries(call.env)
    /\ ret' = [ret EXCEPT !.done = TRUE, !.result = "RuntimeError"]
    /\ EmbedFrame

NextEmbed == EmbedSkip \/ EmbedAttempt \/ EmbedExhausted

\* Every pass is a blocking call followed by a bounded sleep: a pending step
\* is eventually taken
SpecEmbed == InitEmbed /\ [][NextEmbed]_vars /\ WF_vars(NextEmbed)

EmbedCalled == call.fn = "embed_query"

\* The errors worth another attempt: a rate limit, a timeout, a 5xx answer,
\* a connection reset
TransientErrors ==
    {"Error code: 429 - Rate limit reached", "Connection reset by peer"}

EmbedSafe ==
    EmbedCalled =>
        /\ ret.attempts <= EmbedMaxRetries(call.env)
        /\ Len(ret.errors) <= ret.attempts
        /\ \A i \in DOMAIN ret.errors :
               ret.errors[i] \notin TransientErrors
                   => (i = Len(ret.errors) /\ ret.done /\ ret.result = "RuntimeError")
        /\ ret.done =>
               /\ ret.result \in {"embedding", "RuntimeError", "empty"}
               /\ ret.result = "embedding" <=> ret.attempts = Len(ret.errors) + 1
               /\ ret.result = "empty" <=> EmbedSkips
        /\ ~ret.done => ret.attempts = Len(ret.errors)

\* C40: embed_query always terminates: it makes at most max_retries
\* attempts, a further attempt only after a transient error, none after the
\* first error that is not transient, and it ends by returning the first
\* successful embedding or by raising one RuntimeError.
C40_EmbedQueryTerminates == []EmbedSafe /\ <>(EmbedCalled /\ ret.done)

C40_Witness ==
    /\ EmbedCalled
    /\ ret.done
    /\ ret.attempts = 2
    /\ ret.errors = <<"Connection reset by peer">>
    /\ ret.result = "embedding"

====
